---- MODULE Spec2Model ----
(***************************************************************************)
(* Nova / Orvyn / Lumen cognitive pipeline.                                *)
(*                                                                         *)
(* Three Redis streams (append-only logs read with XREAD) connect the      *)
(* stages:                                                                 *)
(*   cognitive_bus:requests        think_endpoint  -> NovaCore             *)
(*   cognitive_bus:core_results    workers         -> LumenCore            *)
(*   cognitive_bus:lumen_decisions LumenCore       -> wait_for_lumen_...   *)
(* The bus is modelled at its interface: xadd appends one entry to the     *)
(* stream, xread(stream: 0, count=n) returns the first n entries of the    *)
(* stream (every reader in the code passes the start id 0 on every call).  *)
(* request ids (uuid4 strings) are natural numbers; scores and             *)
(* confidences (floats in [0,1]) are integers counted in hundredths, the   *)
(* novelty and the confidence computed by the Synthesizer in thousandths.  *)
(***************************************************************************)
EXTENDS Integers, Sequences, FiniteSets, TLC

\* ------------------------------------------------------------ bounds
MaxRequests == 2
MaxResults == 11
MaxDecisions == 2
MaxPipelineResults == 3
MaxBacklog == 10
MaxActions == 2
MaxAnalogies == 2
MaxLoopResults == 3
MaxInsightAnalogies == 3
MaxSubscribed == 4
MaxRuns == 2
MaxBatchQueries == 2
MaxUuids == 2
MaxBatchRequests == 3

\* ------------------------------------------------- program constants
NovaReadCount == 1
SubscribeReadCount == 1
LumenReadCount == 10
GatewayReadCount == 10
BatchReadCount == 10
Timeout == 10
FallbackConfidence == 30
ALIGNMENT_HIGH == 75
ALIGNMENT_MID == 45
CONFLICT_MID == 35
NeutralAlignment == 50
TraceTTL == 3600

VARIABLES
    requests,         \* stream cognitive_bus:requests
    core_results,     \* stream cognitive_bus:core_results
    lumen_decisions,  \* stream cognitive_bus:lumen_decisions
    results_cache,    \* LumenCore.start_listening: request_id -> (core -> message)
    nova_returned,    \* value returned by the last NovaCore.process_request call
    gateway,          \* the think_endpoint call in progress / last finished
    strategy_call,    \* arguments and result of a select_strategy call
    synthesis_call,   \* arguments and result of a process_core_results call
    traces,           \* Redis keys trace:<request_id> written by save_trace
    trace_reply,      \* answer of the last get_trace call
    loops,            \* state of the two start_listening loops
    stores,           \* outcome of the last store_result / store_decision call
    is_running,       \* the is_running flag of NovaCore and of LumenCore
    synthesized,      \* arguments of the loop's last process_core_results call
    scheduled,        \* the task the asyncio event loop is running
    subscription,     \* cursor and deliveries of subscribe_to_requests
    analytic,         \* a query, a context and the payloads computed for them
    batch_call        \* the batch_insight_request call and the uuids drawn

vars == <<requests, core_results, lumen_decisions, results_cache,
          nova_returned, gateway, strategy_call, synthesis_call, traces,
          trace_reply, loops, stores, is_running, synthesized, scheduled,
          subscription, analytic, batch_call>>

RequestIds == 1..MaxRequests
Cores == {"nova", "orvyn"}

Min(a, b) == IF a <= b THEN a ELSE b
Max(a, b) == IF a >= b THEN a ELSE b

\* xread({stream: 0}, count=n): the first n entries of the stream.
XRead(stream, count) == SubSeq(stream, 1, Min(count, Len(stream)))

\* Variant of XReadAfter that begins at the entry with id last_id.
XReadFrom(stream, last_id, count) ==
    SubSeq(stream, Max(last_id, 1),
           Min(Max(last_id, 1) + count - 1, Len(stream)))

\* xread({stream: last_id}, count=n): the first n entries of the stream
\* behind the entry with id last_id (ids are offsets, '0' is before the
\* first entry).
XReadAfter(stream, last_id, count) ==
    SubSeq(stream, last_id + 1, Min(last_id + count, Len(stream)))

\* ------------------------------------------------------------ messages
Request(id, qlen) == [request_id |-> id, query_len |-> qlen]
Result(id, core, conf) == [request_id |-> id, core |-> core, confidence |-> conf]
NoResult == Result(0, "none", 0)

\* What the Correlator reads of an Associative result besides its
\* confidence: the number of its analogies and the dot product of the
\* embedding of its snippets with that of the candidate actions.
UsualContent == [analogies |-> 2, dot |-> 80]
EmptyContent == [analogies |-> 0, dot |-> 80]
OrvynContents == {UsualContent, EmptyContent}
OrvynResult(id, conf, content) ==
    [request_id |-> id, core |-> "orvyn", confidence |-> conf,
     analogies |-> content.analogies, dot |-> content.dot]
NoDecision == [request_id |-> -1]
EmptyMap == [k \in {} |-> 0]

QueryLens == {40}
NoQuery == -1
TimeSteps == {1799, 1800}
OrvynConfidences == {90}

\* Offsets of the entries of a stream that carry request id r.
Offsets(stream, r) == {i \in DOMAIN stream : stream[i].request_id = r}
OffsetsOf(stream, r, core) ==
    {i \in DOMAIN stream : stream[i].request_id = r /\ stream[i].core = core}

\* ------------------------------------------------------------ Analytic worker
\* Variant of NovaConfidence without the two caps.
NovaConfidenceUncapped(query_len, n_actions) == query_len + n_actions * 5

\* NovaCore._calculate_confidence
NovaConfidence(query_len, n_actions) ==
    Min(Min(query_len, 80) + n_actions * 5, 95)

\* NovaCore._create_fallback_result
CreateFallbackResult(request) ==
    Result(request.request_id, "nova", FallbackConfidence)

\* What the Analytic worker reads of a query: len(query), len(query.split()),
\* the domain whose keyword it contains ("general": none), and the concept
\* whose embedding is nearest to the query's when the model encodes it.
Concepts == {"economy", "optimization", "improvement", "reduction", "increase"}
Domains == {"water", "energy", "cost", "productivity", "general"}
Queries ==
    {q \in [len : {0, 40, 120}, words : {0, 9, 16}, domain : Domains,
            concept : {"economy", "increase"}] :
        /\ q.words <= q.len
        /\ q.len = 0 => q.domain = "general"}
Contexts == {"none", "budget"}

\* EmbeddingManager.encode_texts for the query and the concepts: the model
\* encodes them, or model.encode raises and the embeddings are drawn with
\* np.random.randn, so that any concept may be nearest (drawn).
EncodeStates == {"encoded", "random"}
NearestConcept(query, encode, drawn) ==
    IF encode = "encoded" THEN query.concept ELSE drawn

\* NovaCore._extract_main_concept; raises: an exception inside its try.
ExtractMainConcept(query, encode, drawn, raises) ==
    IF raises THEN "analysis" ELSE NearestConcept(query, encode, drawn)

\* NovaCore._find_related_concepts: the concept's row of concept_map.
FindRelatedConcepts(main_concept) ==
    IF main_concept \in Concepts THEN <<main_concept, "related">>
    ELSE <<"solution", "approach", "method">>

\* NovaCore._assess_query_complexity
AssessQueryComplexity(query) ==
    IF query.words > 15 THEN "high"
    ELSE IF query.words > 8 THEN "medium"
    ELSE "low"

\* NovaCore._build_logic_tree
BuildLogicTree(query, context, encode, drawn, raises) ==
    LET main_concept == ExtractMainConcept(query, encode, drawn, raises)
    IN  [root |-> main_concept,
         complexity |-> AssessQueryComplexity(query),
         domain |-> query.domain,
         constraints |-> context,
         related_concepts |-> FindRelatedConcepts(main_concept)]

\* NovaCore._generate_candidate_actions: the three actions of the domain;
\* the first action of "general" names the main concept.  "productivity"
\* has no actions of its own.
GenerateCandidateActions(query, logic_tree) ==
    LET domain == IF logic_tree.domain \in {"water", "energy", "cost"}
                  THEN logic_tree.domain ELSE "general"
    IN  [i \in 1..3 |->
            [domain |-> domain, n |-> i,
             concept |-> IF domain = "general" /\ i = 1
                         THEN logic_tree.root ELSE "-"]]

\* The payload of process_request: computed in the try block, or that of
\* _create_fallback_result when the try block raised (fails).
AnalyticPayload(query, context, encode, drawn, raises, fails) ==
    IF fails
    THEN [logic_tree |-> [root |-> "analysis", complexity |-> "unknown",
                          domain |-> "general", constraints |-> "-",
                          related_concepts |-> <<>>],
          candidate_actions |-> <<[domain |-> "fallback", n |-> query.len,
                                   concept |-> "-"]>>,
          confidence |-> FallbackConfidence]
    ELSE LET logic_tree == BuildLogicTree(query, context, encode, drawn,
                                          raises)
             actions == GenerateCandidateActions(query, logic_tree)
         IN  [logic_tree |-> logic_tree,
              candidate_actions |-> actions,
              confidence |-> NovaConfidence(query.len, Len(actions))]

\* No query yet.
NoAnalytic == [query |-> [len |-> 0, words |-> 0, domain |-> "none",
                          concept |-> "none"],
               context |-> "none", runs |-> <<>>]

\* One run of process_request on the query and context drawn at the start;
\* runs holds each run's state of the embedding model and its payload.
AnalyticRun ==
    \E encode \in EncodeStates, drawn \in Concepts, raises, fails \in BOOLEAN :
        /\ Len(analytic.runs) < MaxRuns
        /\ encode = "encoded" => drawn = analytic.query.concept
        /\ analytic' =
               [analytic EXCEPT !.runs =
                   Append(@, [encode |-> encode, raises |-> raises,
                              fails |-> fails,
                              payload |-> AnalyticPayload(analytic.query,
                                              analytic.context, encode, drawn,
                                              raises, fails)])]
        /\ UNCHANGED <<requests, core_results, lumen_decisions, results_cache,
                       nova_returned, gateway, strategy_call, synthesis_call,
                       traces, trace_reply, loops, stores, is_running,
                       synthesized, scheduled, subscription, batch_call>>

\* Variant of ProcessRequest whose publication leaves only the latest result
\* on core_results.
ProcessRequestLatestOnly(request, fails, stream) ==
    IF fails
    THEN [returned |-> CreateFallbackResult(request), stream |-> stream]
    ELSE LET result == Result(request.request_id, "nova",
                              NovaConfidence(request.query_len, 3))
         IN [returned |-> result, stream |-> <<result>>]

\* NovaCore.process_request: the result it returns and what it appended to
\* core_results.  fails: computing the payload raised inside the try block.
ProcessRequest(request, fails, stream) ==
    IF fails
    THEN [returned |-> CreateFallbackResult(request), stream |-> stream]
    ELSE LET result == Result(request.request_id, "nova",
                              NovaConfidence(request.query_len, 3))
         IN [returned |-> result, stream |-> Append(stream, result)]

\* The state of a start_listening loop that has caught an exception:
\* "except Exception", then asyncio.sleep(1), then the next iteration.
AfterExceptionDead == "dead"
AfterException == "backoff"

\* The bus during one iteration of a loop: up, or xread raising, or xadd
\* raising.
BusStates == {"up", "read_down", "publish_down"}

\* request_data["request_id"] and request_data["query"], read by
\* process_request before its try block: a message lacking one of the keys
\* (request_id 0, query_len NoQuery) makes them raise KeyError.
Recognizable(request) ==
    request.request_id # 0 /\ request.query_len # NoQuery

\* The record store during one store_result / store_decision call: it
\* works, or the INSERT raises, or sqlite3.connect raises.
StoreStates == {"ok", "write_fails", "connect_fails"}

\* store_result and store_decision raise: the INSERT is inside their
\* try/except, sqlite3.connect is before it.
StoreRaises(store) == store = "connect_fails"

\* A store call and whether the message it was to record was published
\* after it.
Stored(store, published) == [outcome |-> store, published |-> published]
NotStored == Stored("none", FALSE)

\* Variant of IsRunning that does not read the flag.
IsRunningAlways(core) == TRUE

\* while self.is_running: the test at the top of both loops.
IsRunning(core) == is_running[core]

\* A loop is at the top of its while statement.
AtLoopTop(core) == loops[core] \in {"running", "backoff"}

\* The body of the loop of NovaCore.start_listening; core_results holds at
\* most cap entries.  A raising xread, and the KeyError of an
\* unrecognizable message, are caught by the loop; a raising store_result
\* or xadd is caught inside process_request, like any failure of its try
\* block.
NovaBody(cap, bus, store) ==
    /\ IF bus = "read_down"
       THEN /\ loops' = [loops EXCEPT !.nova = AfterException]
            /\ UNCHANGED <<core_results, nova_returned, stores>>
       ELSE LET messages == XRead(requests, NovaReadCount)
            IN  /\ messages # <<>>
                /\ IF ~Recognizable(messages[1])
                   THEN /\ loops' = [loops EXCEPT !.nova = AfterException]
                        /\ UNCHANGED <<core_results, nova_returned, stores>>
                   ELSE \E fails \in BOOLEAN :
                        LET unpublished == \/ fails
                                           \/ StoreRaises(store)
                                           \/ bus = "publish_down"
                            done == ProcessRequest(messages[1], unpublished,
                                                   core_results)
                        IN  /\ Len(done.stream) <= cap
                            /\ core_results' = done.stream
                            /\ nova_returned' = done.returned
                            /\ stores' =
                                   [stores EXCEPT !.nova =
                                       IF fails THEN NotStored
                                       ELSE Stored(store, ~unpublished)]
                            /\ loops' = [loops EXCEPT !.nova = "running"]
    /\ UNCHANGED <<requests, lumen_decisions, results_cache, gateway,
                   strategy_call, synthesis_call, traces, trace_reply,
                   is_running, synthesized, scheduled, subscription, analytic,
                   batch_call>>

\* One iteration of NovaCore.start_listening, begun while is_running.
NovaRun(cap, bus, store) ==
    /\ AtLoopTop("nova")
    /\ IsRunning("nova")
    /\ NovaBody(cap, bus, store)

\* An iteration with the bus and the record store up.
NovaStep(cap) == NovaRun(cap, "up", "ok")

NovaIteration == NovaStep(MaxResults)

\* ------------------------------------------------------------ Associative worker
\* The Associative worker's result reaches the bus through
\* CognitiveBus.publish_core_result, once per request on the requests stream.
OrvynStep(cap, contents) ==
    \E i \in DOMAIN requests : \E conf \in OrvynConfidences :
        \E content \in contents :
            LET r == requests[i].request_id
            IN  /\ OffsetsOf(core_results, r, "orvyn") = {}
                /\ Len(core_results) < cap
                /\ core_results' =
                       Append(core_results, OrvynResult(r, conf, content))
                /\ UNCHANGED <<requests, lumen_decisions, results_cache,
                               nova_returned, gateway, strategy_call,
                               synthesis_call, traces, trace_reply, loops,
                               stores, is_running, synthesized, scheduled,
                               subscription, analytic, batch_call>>

OrvynPublish == OrvynStep(MaxResults, {UsualContent})

\* ------------------------------------------------------------ Correlator
\* LumenCore.process_core_results: the decision it publishes.
Decision(nova_result, orvyn_result) == [request_id |-> nova_result.request_id]

\* Variant of CachePut that keys the cache by core alone: the entry of a
\* request starts from an entry of the cache, whichever request that is of.
CachePutByCore(cache, msg) ==
    LET r == msg.request_id
        old == IF DOMAIN cache = {} THEN EmptyMap
               ELSE cache[CHOOSE k \in DOMAIN cache : TRUE]
        entry == [c \in DOMAIN old \cup {msg.core} |->
                     IF c = msg.core THEN msg ELSE old[c]]
    IN  [k \in DOMAIN cache \cup {r} |-> IF k = r THEN entry ELSE cache[k]]

\* results_cache[request_id][core] = message_data
CachePut(cache, msg) ==
    LET r == msg.request_id
        old == IF r \in DOMAIN cache THEN cache[r] ELSE EmptyMap
        entry == [c \in DOMAIN old \cup {msg.core} |->
                     IF c = msg.core THEN msg ELSE old[c]]
    IN  [k \in DOMAIN cache \cup {r} |-> IF k = r THEN entry ELSE cache[k]]

\* results_cache[request_id].get(core)
Get(entry, core) == IF core \in DOMAIN entry THEN entry[core] ELSE NoResult

\* The two arguments of a process_core_results call.
Pair(nova_result, orvyn_result) ==
    [nova |-> nova_result, orvyn |-> orvyn_result]

\* del results_cache[request_id]
CacheDel(cache, r) == [k \in DOMAIN cache \ {r} |-> cache[k]]

\* len(results_cache[request_id]) == 2 and both .get("nova"), .get("orvyn")
EntryReady(entry) ==
    /\ Cardinality(DOMAIN entry) = 2
    /\ Get(entry, "nova") # NoResult
    /\ Get(entry, "orvyn") # NoResult

\* Variant of SelectStrategy with a strict comparison at alignment_mid.
SelectStrategyStrict(alignment, conflict, novelty) ==
    IF alignment >= ALIGNMENT_HIGH THEN "harmony"
    ELSE IF alignment > ALIGNMENT_MID /\ conflict >= CONFLICT_MID THEN "creative"
    ELSE "conservative"

\* LumenCore.select_strategy; policy_thresholds are the three constants.
SelectStrategy(alignment, conflict, novelty) ==
    IF alignment >= ALIGNMENT_HIGH THEN "harmony"
    ELSE IF alignment >= ALIGNMENT_MID /\ conflict >= CONFLICT_MID THEN "creative"
    ELSE "conservative"

\* A call of select_strategy on the arguments drawn at the start.
SelectStrategyCall ==
    /\ strategy_call.result = "none"
    /\ strategy_call' =
           [strategy_call EXCEPT !.result =
               SelectStrategy(strategy_call.alignment, strategy_call.conflict,
                              strategy_call.novelty)]
    /\ UNCHANGED <<requests, core_results, lumen_decisions, results_cache,
                   nova_returned, gateway, synthesis_call, traces,
                   trace_reply, loops, stores, is_running, synthesized,
                   scheduled, subscription, analytic, batch_call>>

\* ------------------------------------------------------------ synthesis
\* Texts are modelled by what the code tests of them.  A candidate action
\* is [traditional, reduce]: whether its lower-cased text contains
\* "traditional" / "reduce".  An analogy is [similarity, innovation]:
\* innovation tells whether "innovation" is among its tags; its snippet is
\* named by its position in the sequence.  mentions_increase tells whether
\* str(orvyn_result).lower() contains "increase".  Inputs are in hundredths;
\* calculate_novelty_score and calculate_confidence are exact in
\* thousandths, so their results are counted in thousandths.
ActionKinds == [traditional : BOOLEAN, reduce : BOOLEAN]
AnalogyKinds == {[similarity |-> 30, innovation |-> FALSE],
                 [similarity |-> 90, innovation |-> FALSE],
                 [similarity |-> 90, innovation |-> TRUE]}

SeqsUpTo(S, n) == UNION {[1..k -> S] : k \in 0..n}

\* The Analytic payloads and the Associative payloads of the calls checked.
NovaPayloads ==
    [candidate_actions : SeqsUpTo(ActionKinds, MaxActions),
     confidence : {0, 70}]
OrvynPayloads ==
    [analogies : SeqsUpTo(AnalogyKinds, MaxAnalogies),
     confidence : {0, 90},
     innovation_potential : {60, 100},
     domain_coverage : {0, 2, 10},
     mentions_increase : BOOLEAN]

\* self.model.encode and np.dot: the call raises, or yields the dot product
\* of the two embeddings.
EmbedOutcomes ==
    {[fails |-> TRUE, dot |-> 0]}
        \cup {[fails |-> FALSE, dot |-> d] : d \in {-20, 80, 120}}

\* Variant of CalculateAlignmentScore that answers 0 when embedding fails.
CalculateAlignmentScoreZero(nova, orvyn, embed) ==
    IF embed.fails THEN 0 ELSE Max(0, Min(100, embed.dot))

\* LumenCore.calculate_alignment_score
CalculateAlignmentScore(nova, orvyn, embed) ==
    IF embed.fails THEN NeutralAlignment ELSE Max(0, Min(100, embed.dot))

\* LumenCore.calculate_conflict_score: two independent tests per action,
\* each adding one indicator; the quotient is cut to whole hundredths.
CalculateConflictScore(nova, orvyn) ==
    LET actions == nova.candidate_actions
        innovation_domain ==
            \E i \in DOMAIN orvyn.analogies : orvyn.analogies[i].innovation
        conflict_indicators ==
            Cardinality({i \in DOMAIN actions :
                            actions[i].traditional /\ innovation_domain})
            + Cardinality({i \in DOMAIN actions :
                              actions[i].reduce /\ orvyn.mentions_increase})
        total_checks == Len(actions)
    IN  (conflict_indicators * 100) \div Max(total_checks, 1)

\* LumenCore.calculate_novelty_score, in thousandths:
\* min(innovation * 0.7 + domain_coverage / 5 * 0.3, 1.0)
CalculateNoveltyScore(nova, orvyn) ==
    Min(7 * orvyn.innovation_potential + 60 * orvyn.domain_coverage, 1000)

\* nova_actions[0] if nova_actions else '<placeholder phrase>': position 1,
\* or 0 for the placeholder.
TopAction(nova_actions) == IF nova_actions # <<>> THEN 1 ELSE 0

\* max(orvyn_analogies, key=similarity): the first analogy of the greatest
\* similarity.
Strongest(analogies) ==
    CHOOSE i \in DOMAIN analogies :
        \A j \in DOMAIN analogies :
            \/ analogies[j].similarity < analogies[i].similarity
            \/ (analogies[j].similarity = analogies[i].similarity /\ i <= j)

\* Variant of SortedBySimilarity that keeps the order of the payload.
SortedAsGiven(analogies) == [k \in DOMAIN analogies |-> k]

\* sorted(orvyn_analogies, key=similarity): positions in ascending
\* similarity, equal similarities in their original order.
SortedBySimilarity(analogies) ==
    LET Before(i, j) ==
            \/ analogies[i].similarity < analogies[j].similarity
            \/ (analogies[i].similarity = analogies[j].similarity /\ i < j)
        Rank(i) == 1 + Cardinality({j \in DOMAIN analogies : Before(j, i)})
    IN  [k \in DOMAIN analogies |->
            CHOOSE i \in DOMAIN analogies : Rank(i) = k]

Raised == [raised |-> TRUE, action |-> 0, cited |-> <<>>]

\* LumenCore._harmony_fusion: max() of an empty list raises ValueError.
HarmonyFusion(nova_actions, orvyn_analogies) ==
    IF orvyn_analogies = <<>> THEN Raised
    ELSE [raised |-> FALSE, action |-> TopAction(nova_actions),
          cited |-> <<Strongest(orvyn_analogies)>>]

\* LumenCore._creative_fusion: diverse_analogies[0] and [1] raise
\* IndexError when fewer than two analogies were given.
CreativeFusion(nova_actions, orvyn_analogies) ==
    LET sorted == SortedBySimilarity(orvyn_analogies)
        diverse_analogies == SubSeq(sorted, 1, Min(2, Len(sorted)))
    IN  IF Len(diverse_analogies) < 2 THEN Raised
        ELSE [raised |-> FALSE, action |-> TopAction(nova_actions),
              cited |-> diverse_analogies]

\* LumenCore._conservative_synthesis
ConservativeSynthesis(nova_actions, orvyn_analogies) ==
    [raised |-> FALSE, action |-> TopAction(nova_actions),
     cited |-> IF orvyn_analogies # <<>> THEN <<1>> ELSE <<>>]

\* LumenCore.generate_insight
GenerateInsight(nova, orvyn, strategy) ==
    IF strategy = "harmony"
    THEN HarmonyFusion(nova.candidate_actions, orvyn.analogies)
    ELSE IF strategy = "creative"
    THEN CreativeFusion(nova.candidate_actions, orvyn.analogies)
    ELSE ConservativeSynthesis(nova.candidate_actions, orvyn.analogies)

\* Variant of CalculateConfidence without the alignment term.
CalculateConfidenceNoBoost(alignment, conflict, novelty, nova_conf, orvyn_conf) ==
    Max(0, Min(1000, 4 * nova_conf + 3 * orvyn_conf - conflict))

\* LumenCore.calculate_confidence, in thousandths:
\* max(0, min(1, nova_conf*0.4 + orvyn_conf*0.3 + alignment*0.2 - conflict*0.1))
CalculateConfidence(alignment, conflict, novelty, nova_conf, orvyn_conf) ==
    Max(0, Min(1000, 4 * nova_conf + 3 * orvyn_conf + 2 * alignment - conflict))

\* LumenCore.process_core_results up to the decision it builds: the three
\* scores, the strategy, the insight and the confidence, or the exception
\* raised by generate_insight (confidence is then never computed).
ProcessCoreResults(nova, orvyn, embed) ==
    LET alignment_score == CalculateAlignmentScore(nova, orvyn, embed)
        conflict_score == CalculateConflictScore(nova, orvyn)
        novelty_score == CalculateNoveltyScore(nova, orvyn)
        strategy == SelectStrategy(alignment_score, conflict_score,
                                   novelty_score)
        insight == GenerateInsight(nova, orvyn, strategy)
    IN  [raised |-> insight.raised,
         alignment |-> alignment_score,
         conflict |-> conflict_score,
         novelty |-> novelty_score,
         strategy |-> strategy,
         insight |-> insight,
         confidence |->
             IF insight.raised THEN -1
             ELSE CalculateConfidence(alignment_score, conflict_score,
                                      novelty_score, nova.confidence,
                                      orvyn.confidence)]

\* A call of process_core_results on the arguments drawn at the start.
SynthesisCall ==
    /\ synthesis_call.pc = "called"
    /\ synthesis_call' =
           [synthesis_call EXCEPT
               !.pc = "returned",
               !.out = ProcessCoreResults(synthesis_call.nova,
                                          synthesis_call.orvyn,
                                          synthesis_call.embed)]
    /\ UNCHANGED <<requests, core_results, lumen_decisions, results_cache,
                   nova_returned, gateway, strategy_call, traces, trace_reply,
                   loops, stores, is_running, synthesized, scheduled,
                   subscription, analytic, batch_call>>

\* ------------------------------------------------------------ Correlator loop
\* The payloads process_core_results reads from the two cached messages.
NovaPayloadOf(msg) ==
    [candidate_actions |->
         [i \in 1..3 |-> [traditional |-> FALSE, reduce |-> FALSE]],
     confidence |-> msg.confidence]
OrvynPayloadOf(msg) ==
    [analogies |->
         [i \in 1..msg.analogies |->
             [similarity |-> msg.confidence, innovation |-> FALSE]],
     confidence |-> msg.confidence,
     innovation_potential |-> 60,
     domain_coverage |-> msg.analogies,
     mentions_increase |-> FALSE]

\* Whether process_core_results raises in generate_insight, for every pair
\* of cached messages (tabulated once; the confidence of an Analytic
\* message is that of a computed or of a fallback result).
InsightRaises ==
    [nova_result \in
         {Result(0, "nova", conf) :
              conf \in {NovaConfidence(qlen, 3) : qlen \in QueryLens}
                          \cup {FallbackConfidence}},
     orvyn_result \in
         {OrvynResult(0, conf, content) :
              conf \in OrvynConfidences, content \in OrvynContents} |->
        ProcessCoreResults(NovaPayloadOf(nova_result),
                           OrvynPayloadOf(orvyn_result),
                           [fails |-> FALSE, dot |-> orvyn_result.dot]).raised]

\* generate_insight raises for the pair of cached messages.
InsightFails(nova_result, orvyn_result) ==
    InsightRaises[[nova_result EXCEPT !.request_id = 0],
                  [orvyn_result EXCEPT !.request_id = 0]]

\* await self.process_core_results(nova_result, orvyn_result) raises:
\* in generate_insight, in store_decision, or in xadd when the bus does
\* not accept the publication.
SynthesisRaises(nova_result, orvyn_result, bus, store) ==
    \/ InsightFails(nova_result, orvyn_result)
    \/ StoreRaises(store)
    \/ bus = "publish_down"

\* Variant of HandleMessage that calls process_core_results for every
\* message, whatever its entry holds.
HandleMessageUnguarded(state, msg) ==
    LET r == msg.request_id
        cache == CachePut(state.cache, msg)
        nova_result == Get(cache[r], "nova")
        orvyn_result == Get(cache[r], "orvyn")
    IN  IF state.raised THEN state
        ELSE [state EXCEPT
                 !.cache = CacheDel(cache, r),
                 !.call = Pair(nova_result, orvyn_result),
                 !.stored = Stored(state.store, TRUE),
                 !.decisions = Append(state.decisions, [request_id |-> r])]

\* The test of the entry of request r after a message was cached, and the
\* synthesis when it holds both results.  When process_core_results raises
\* the entry stays in the cache.
HandleEntry(state, cache, r) ==
    LET nova_result == Get(cache[r], "nova")
        orvyn_result == Get(cache[r], "orvyn")
        called == [state EXCEPT !.cache = cache,
                                !.call = Pair(nova_result, orvyn_result)]
    IN  IF ~EntryReady(cache[r]) THEN [state EXCEPT !.cache = cache]
        ELSE IF InsightFails(nova_result, orvyn_result)
        THEN [called EXCEPT !.raised = TRUE]
        ELSE IF StoreRaises(state.store) \/ state.bus = "publish_down"
        THEN [called EXCEPT !.raised = TRUE,
                            !.stored = Stored(state.store, FALSE)]
        ELSE [called EXCEPT
                 !.cache = CacheDel(cache, r),
                 !.stored = Stored(state.store, TRUE),
                 !.decisions = Append(state.decisions,
                                      Decision(nova_result, orvyn_result))]

\* The body of the loop over one message of the batch.  Once an exception
\* was raised the remaining messages of the batch are not handled.  (The
\* cache with the message is bound in a singleton set, for TLC to build it
\* once.)
HandleMessage(state, msg) ==
    IF state.raised THEN state
    ELSE CHOOSE out \in {HandleEntry(state, cache, msg.request_id) :
                             cache \in {CachePut(state.cache, msg)}} : TRUE

\* The loop over the messages of the batch, in stream order.  (Binding each
\* intermediate state in a singleton set makes TLC evaluate it once.)
RECURSIVE HandleBatch(_, _, _)
HandleBatch(state, batch, i) ==
    IF i > Len(batch) THEN state
    ELSE CHOOSE out \in {HandleBatch(next, batch, i + 1) :
                             next \in {HandleMessage(state, batch[i])}} : TRUE

\* The body of the loop of LumenCore.start_listening; lumen_decisions
\* holds at most cap entries.  A raising xread, and an exception raised
\* while the batch is handled, are caught by the loop.
LumenBody(cap, bus, store) ==
    /\ IF bus = "read_down"
       THEN /\ loops' = [loops EXCEPT !.lumen = AfterException]
            /\ UNCHANGED <<results_cache, lumen_decisions, stores,
                           synthesized>>
       ELSE \E done \in {HandleBatch([cache |-> results_cache,
                                       decisions |-> lumen_decisions,
                                       raised |-> FALSE, bus |-> bus,
                                       store |-> store, stored |-> NotStored,
                                       call |-> synthesized],
                                      XRead(core_results, LumenReadCount), 1)} :
                /\ Len(done.decisions) <= cap
                /\ results_cache' = done.cache
                /\ lumen_decisions' = done.decisions
                /\ stores' = [stores EXCEPT !.lumen = done.stored]
                /\ synthesized' = done.call
                /\ loops' = [loops EXCEPT
                                !.lumen = IF done.raised THEN AfterException
                                          ELSE "running"]
    /\ UNCHANGED <<requests, core_results, nova_returned, gateway,
                   strategy_call, synthesis_call, traces, trace_reply,
                   is_running, scheduled, subscription, analytic, batch_call>>

\* One iteration of LumenCore.start_listening, begun while is_running.
LumenRun(bus, store) ==
    /\ AtLoopTop("lumen")
    /\ IsRunning("lumen")
    /\ LumenBody(MaxDecisions, bus, store)

\* An iteration with the bus and the record store up.
LumenIteration == LumenRun("up", "ok")

\* stop(): the flag of a core is cleared.
Stop(core) ==
    /\ is_running[core]
    /\ is_running' = [is_running EXCEPT ![core] = FALSE]
    /\ UNCHANGED <<requests, core_results, lumen_decisions, results_cache,
                   nova_returned, gateway, strategy_call, synthesis_call,
                   traces, trace_reply, loops, stores, synthesized, scheduled,
                   subscription, analytic, batch_call>>

\* The while test of a loop: it begins an iteration when the flag is set
\* (and the streams of the model have room for what the iteration may
\* publish), and leaves the loop when the flag is cleared.
LoopTest(core, room) ==
    /\ AtLoopTop(core)
    /\ IF IsRunning(core)
       THEN /\ room
            /\ loops' = [loops EXCEPT ![core] = "iterating"]
       ELSE loops' = [loops EXCEPT ![core] = "stopped"]
    /\ UNCHANGED <<requests, core_results, lumen_decisions, results_cache,
                   nova_returned, gateway, strategy_call, synthesis_call,
                   traces, trace_reply, stores, is_running, synthesized,
                   scheduled, subscription, analytic, batch_call>>

NovaTest == LoopTest("nova", Len(core_results) < MaxLoopResults)
LumenTest == LoopTest("lumen", Len(lumen_decisions) < MaxDecisions)

\* The rest of an iteration that has begun: the xread returns within its
\* block time with nothing, or with messages the body handles, or raises.
ReadStates == {"up", "read_down"}

NovaFinish ==
    /\ loops.nova = "iterating"
    /\ \E bus \in ReadStates :
           IF bus # "read_down" /\ XRead(requests, NovaReadCount) = <<>>
           THEN /\ loops' = [loops EXCEPT !.nova = "running"]
                /\ UNCHANGED <<requests, core_results, lumen_decisions,
                               results_cache, nova_returned, gateway,
                               strategy_call, synthesis_call, traces,
                               trace_reply, stores, is_running, synthesized,
                               scheduled, subscription, analytic, batch_call>>
           ELSE NovaBody(MaxLoopResults, bus, "ok")

LumenFinish ==
    /\ loops.lumen = "iterating"
    /\ \E bus \in ReadStates :
           LumenBody(MaxDecisions + MaxRequests, bus, "ok")

\* An iteration of either loop, whatever the state of the bus.
NovaLoop == \E bus \in BusStates : NovaRun(MaxLoopResults, bus, "ok")
LumenLoop == \E bus \in BusStates : LumenRun(bus, "ok")

\* A worker's result reaches core_results, once per request and worker.
ResultArrives ==
    \E r \in RequestIds, core \in Cores, content \in OrvynContents :
        \E qlen \in QueryLens, conf \in OrvynConfidences :
            /\ OffsetsOf(core_results, r, core) = {}
            /\ core = "nova" => content = UsualContent
            /\ core_results' =
                   Append(core_results,
                          IF core = "nova"
                          THEN Result(r, "nova", NovaConfidence(qlen, 3))
                          ELSE OrvynResult(r, conf, content))
            /\ UNCHANGED <<requests, lumen_decisions, results_cache,
                           nova_returned, gateway, strategy_call,
                           synthesis_call, traces, trace_reply, loops, stores,
                           is_running, synthesized, scheduled, subscription,
                           analytic, batch_call>>

\* A PartialResult of a core that is neither 'nova' nor 'orvyn' reaches
\* core_results, once per request.
ForeignArrives ==
    \E r \in RequestIds :
        /\ OffsetsOf(core_results, r, "other") = {}
        /\ core_results' = Append(core_results, Result(r, "other", 0))
        /\ UNCHANGED <<requests, lumen_decisions, results_cache,
                       nova_returned, gateway, strategy_call, synthesis_call,
                       traces, trace_reply, loops, stores, is_running,
                       synthesized, scheduled, subscription, analytic,
                       batch_call>>

\* ------------------------------------------------------------ Gateway
\* think_endpoint, try block: returns 200 with the decision, or raises
\* HTTPException(408) when wait_for_lumen_decision returned None.
TryBody(decision) ==
    IF decision # NoDecision
    THEN [raised |-> FALSE, status |-> 200]
    ELSE [raised |-> TRUE, status |-> 408]

\* think_endpoint, "except Exception": whatever the try block raised is
\* replaced by HTTPException(500).
ExceptHandler(outcome) ==
    IF outcome.raised THEN [raised |-> TRUE, status |-> 500] ELSE outcome

ThinkOutcome(decision) == ExceptHandler(TryBody(decision))

\* think_endpoint up to the call of wait_for_lumen_decision: a fresh
\* request id, the request published, the wait started.
ThinkPublish ==
    \E qlen \in QueryLens :
        LET id == Len(requests) + 1
        IN  /\ gateway.pc # "waiting"
            /\ Len(requests) < MaxRequests
            /\ requests' = Append(requests, Request(id, qlen))
            /\ gateway' = [pc |-> "waiting", request_id |-> id, elapsed |-> 0,
                           decision |-> NoDecision, status |-> 0,
                           read_to |-> 0, rescanned |-> FALSE]
            /\ UNCHANGED <<core_results, lumen_decisions, results_cache,
                           nova_returned, strategy_call, synthesis_call,
                           traces, trace_reply, loops, stores, is_running,
                           synthesized, scheduled, subscription, analytic,
                           batch_call>>

\* Variant of FirstMatch without the request_id filter.
FirstMatchAny(messages, request_id) ==
    IF messages = <<>> THEN NoDecision ELSE messages[1]

\* The first entry of the batch that carries the request id, or None.
FirstMatch(messages, request_id) ==
    LET hits == Offsets(messages, request_id)
    IN  IF hits = {} THEN NoDecision
        ELSE messages[CHOOSE i \in hits : \A j \in hits : i <= j]

\* Redis SET key value EX seconds: the key holds the value, of age 0, with
\* the given time to live.
RedisSetEx(store, key, value, seconds) ==
    [k \in DOMAIN store \cup {key} |->
        IF k = key THEN [value |-> value, age |-> 0, ex |-> seconds]
        ELSE store[k]]

\* Redis after some seconds: every key is older, the keys whose time to
\* live has elapsed are gone.
RedisElapse(store, seconds) ==
    [k \in {j \in DOMAIN store : store[j].age + seconds < store[j].ex} |->
        [store[k] EXCEPT !.age = @ + seconds]]

\* Variant of SaveTrace that stores the request without the decision.
SaveTraceRequestOnly(store, request_id, request_data, lumen_decision) ==
    RedisSetEx(store, request_id,
               [request_id |-> request_id, request |-> request_data,
                lumen_decision |-> NoDecision],
               TraceTTL)

\* Variant of SaveTrace with one second more to live.
SaveTraceLonger(store, request_id, request_data, lumen_decision) ==
    RedisSetEx(store, request_id,
               [request_id |-> request_id, request |-> request_data,
                lumen_decision |-> lumen_decision],
               TraceTTL + 1)

\* save_trace: redis_client.set("trace:<request_id>", trace_data, ex=3600)
SaveTrace(store, request_id, request_data, lumen_decision) ==
    RedisSetEx(store, request_id,
               [request_id |-> request_id, request |-> request_data,
                lumen_decision |-> lumen_decision],
               TraceTTL)

\* The bus_message think_endpoint built for its request.
BusMessage(request_id) ==
    requests[CHOOSE i \in DOMAIN requests :
                 requests[i].request_id = request_id]

\* One iteration of the loop of wait_for_lumen_decision, and, when the loop
\* ends, the rest of think_endpoint: with a decision, save_trace and the
\* answer 200; without, the error answer.  With scan, the call's record
\* keeps what the xread returned: read_to is the offset of the last entry
\* returned, rescanned tells that an entry was returned which an earlier
\* xread of the call had returned.
GatewayIteration(scan) ==
    /\ gateway.pc = "waiting"
    /\ LET messages == IF gateway.elapsed < Timeout
                       THEN XRead(lumen_decisions, GatewayReadCount)
                       ELSE <<>>
           found == FirstMatch(messages, gateway.request_id)
           polled == IF scan /\ gateway.elapsed < Timeout
                     THEN [gateway EXCEPT
                              !.read_to = Len(messages),
                              !.rescanned = messages # <<>>
                                            /\ gateway.read_to >= 1]
                     ELSE gateway
       IN  IF gateway.elapsed < Timeout /\ found = NoDecision
           THEN /\ gateway' = polled
                /\ UNCHANGED traces
           ELSE /\ gateway' = [polled EXCEPT
                                  !.pc = "done", !.decision = found,
                                  !.status = ThinkOutcome(found).status]
                /\ traces' =
                       IF found # NoDecision
                       THEN SaveTrace(traces, gateway.request_id,
                                      BusMessage(gateway.request_id), found)
                       ELSE traces
    /\ UNCHANGED <<requests, core_results, lumen_decisions, results_cache,
                   nova_returned, strategy_call, synthesis_call, trace_reply,
                   loops, stores, is_running, synthesized, scheduled,
                   subscription, analytic, batch_call>>

GatewayPoll == GatewayIteration(FALSE)
GatewayScan == GatewayIteration(TRUE)

\* time.time() advances by a second while a call waits.  An iteration of
\* the wait loop lasts at most the 1000 ms block of its xread and returns a
\* match at once, so a whole second passes only while the loop sees none.
\* The stored traces are a second older.
Tick ==
    /\ gateway.pc = "waiting"
    /\ gateway.elapsed < Timeout
    /\ FirstMatch(XRead(lumen_decisions, GatewayReadCount),
                  gateway.request_id) = NoDecision
    /\ gateway' = [gateway EXCEPT !.elapsed = @ + 1]
    /\ traces' = RedisElapse(traces, 1)
    /\ UNCHANGED <<requests, core_results, lumen_decisions, results_cache,
                   nova_returned, strategy_call, synthesis_call, trace_reply,
                   loops, stores, is_running, synthesized, scheduled,
                   subscription, analytic, batch_call>>

\* get_trace: the stored trace, or HTTPException(404).  The answer carries
\* the age of the trace it presents.
GetTrace(store, request_id) ==
    IF request_id \in DOMAIN store
    THEN [request_id |-> request_id, status |-> 200,
          age |-> store[request_id].age]
    ELSE [request_id |-> request_id, status |-> 404, age |-> 0]

\* A call of get_trace.
GetTraceCall ==
    \E r \in RequestIds :
        /\ trace_reply' = GetTrace(traces, r)
        /\ UNCHANGED <<requests, core_results, lumen_decisions, results_cache,
                       nova_returned, gateway, strategy_call, synthesis_call,
                       traces, loops, stores, is_running, synthesized,
                       scheduled, subscription, analytic, batch_call>>

\* Time passes while no call waits.
TimePasses ==
    \E seconds \in TimeSteps :
        /\ gateway.pc # "waiting"
        /\ traces' = RedisElapse(traces, seconds)
        /\ UNCHANGED <<requests, core_results, lumen_decisions, results_cache,
                       nova_returned, gateway, strategy_call, synthesis_call,
                       trace_reply, loops, stores, is_running, synthesized,
                       scheduled, subscription, analytic, batch_call>>

\* ------------------------------------------------------------ environment
\* CognitiveBus.publish_request: a request with a fresh id is appended to
\* the requests stream.
PublishRequest ==
    \E qlen \in QueryLens :
        /\ Len(requests) < MaxRequests
        /\ requests' = Append(requests, Request(Len(requests) + 1, qlen))
        /\ UNCHANGED <<core_results, lumen_decisions, results_cache,
                       nova_returned, gateway, strategy_call, synthesis_call,
                       traces, trace_reply, loops, stores, is_running,
                       synthesized, scheduled, subscription, analytic,
                       batch_call>>

\* A message the Analytic worker cannot recognize reaches the requests
\* stream: one without request_id, or one without query.
PublishMalformed ==
    \E message \in {Request(0, qlen) : qlen \in QueryLens}
                      \cup {Request(Len(requests) + 1, NoQuery)} :
        /\ Len(requests) < MaxRequests
        /\ requests' = Append(requests, message)
        /\ UNCHANGED <<core_results, lumen_decisions, results_cache,
                       nova_returned, gateway, strategy_call, synthesis_call,
                       traces, trace_reply, loops, stores, is_running,
                       synthesized, scheduled, subscription, analytic,
                       batch_call>>

\* The Correlator's publication as the Gateway sees it: a decision for a
\* request on the requests stream is appended to lumen_decisions.
DecisionArrives ==
    \E i \in DOMAIN requests :
        /\ Len(lumen_decisions) < MaxBacklog + MaxDecisions
        /\ Offsets(lumen_decisions, requests[i].request_id) = {}
        /\ lumen_decisions' =
               Append(lumen_decisions, [request_id |-> requests[i].request_id])
        /\ UNCHANGED <<requests, core_results, results_cache, nova_returned,
                       gateway, strategy_call, synthesis_call, traces,
                       trace_reply, loops, stores, is_running, synthesized,
                       scheduled, subscription, analytic, batch_call>>

\* A message without request_id reaches lumen_decisions (once).
StrayDecision ==
    /\ Len(lumen_decisions) < MaxBacklog + MaxDecisions
    /\ Offsets(lumen_decisions, 0) = {}
    /\ lumen_decisions' = Append(lumen_decisions, [request_id |-> 0])
    /\ UNCHANGED <<requests, core_results, results_cache, nova_returned,
                   gateway, strategy_call, synthesis_call, traces,
                   trace_reply, loops, stores, is_running, synthesized,
                   scheduled, subscription, analytic, batch_call>>

\* ------------------------------------------------------------ batch endpoint
\* Request ids are strings: str(uuid4()) of a think call, and
\* f"{batch_id}_{i}" of the i-th query of a batch.  A uuid holds no '_' and
\* i is a number, so the ids of a think call and of a batch query differ,
\* and two batch ids are equal exactly when batch_id and i are.  The ids are
\* numbered accordingly: uuids are 1, 2, ... in the order drawn, a batch_id
\* a caller makes up is a number above MaxUuids.
Stride == MaxBatchQueries + 1
ThinkRequestId(uuid) == uuid * Stride
BatchRequestId(batch_id, i) == batch_id * Stride + i + 1
IsBatchRequestId(id) == id % Stride # 0
CallerBatchIds == {MaxUuids + 1}

\* No batch call yet, no uuid drawn.
NoBatch == [pc |-> "idle", batch_id |-> 0, queries |-> 0, i |-> 0,
            results |-> <<>>, failed_count |-> 0, uuids |-> 0,
            response |-> [total_processed |-> 0, failed_count |-> 0,
                          results |-> <<>>]]

\* think_endpoint: request_id = str(uuid.uuid4()), then xadd.
ThinkCall ==
    \E qlen \in QueryLens :
        /\ batch_call.uuids < MaxUuids
        /\ Len(requests) < MaxBatchRequests
        /\ requests' = Append(requests,
                              Request(ThinkRequestId(batch_call.uuids + 1), qlen))
        /\ batch_call' = [batch_call EXCEPT !.uuids = @ + 1]
        /\ UNCHANGED <<core_results, lumen_decisions, results_cache,
                       nova_returned, gateway, strategy_call, synthesis_call,
                       traces, trace_reply, loops, stores, is_running,
                       synthesized, scheduled, subscription, analytic>>

\* batch_insight_request up to its loop: batch_id = batch_request.batch_id
\* or str(uuid.uuid4()).  given = 0: the caller gave no batch_id; otherwise
\* the caller gave one made up, or the batch_id of the earlier call.
BatchStart ==
    \E given \in {0} \cup CallerBatchIds \cup {batch_call.batch_id},
       queries \in 0..MaxBatchQueries :
        /\ batch_call.pc \in {"idle", "returned"}
        /\ Len(requests) < MaxBatchRequests
        /\ given = 0 => batch_call.uuids < MaxUuids
        /\ batch_call' = [batch_call EXCEPT
                        !.pc = "running",
                        !.batch_id = IF given = 0 THEN batch_call.uuids + 1
                                     ELSE given,
                        !.uuids = IF given = 0 THEN @ + 1 ELSE @,
                        !.queries = queries, !.i = 0,
                        !.results = <<>>, !.failed_count = 0,
                        !.response = NoBatch.response]
        /\ UNCHANGED <<requests, core_results, lumen_decisions, results_cache,
                       nova_returned, gateway, strategy_call, synthesis_call,
                       traces, trace_reply, loops, stores, is_running,
                       synthesized, scheduled, subscription, analytic>>

\* Variant of CountItem that counts as failed only the queries without a
\* decision.
CountItemUnfound(call, request_id, lumen_decision, raised) ==
    IF ~raised /\ lumen_decision # NoDecision
    THEN [call EXCEPT !.i = @ + 1, !.results = Append(@, request_id)]
    ELSE IF ~raised
    THEN [call EXCEPT !.i = @ + 1, !.failed_count = @ + 1]
    ELSE [call EXCEPT !.i = @ + 1]

\* The end of one iteration of the loop over the queries: the response is
\* appended to results, or failed_count is incremented (no decision found,
\* or an exception raised anywhere in the try block).
CountItem(call, request_id, lumen_decision, raised) ==
    IF ~raised /\ lumen_decision # NoDecision
    THEN [call EXCEPT !.i = @ + 1, !.results = Append(@, request_id)]
    ELSE [call EXCEPT !.i = @ + 1, !.failed_count = @ + 1]

\* The first half of an iteration of the loop of batch_insight_request:
\* xadd of the query's request, then await asyncio.sleep(0.5).  When xadd
\* raises, the iteration ends in the except branch.
BatchPublish ==
    \E bus \in {"up", "publish_down"} :
        LET request_id == BatchRequestId(batch_call.batch_id, batch_call.i)
        IN  /\ batch_call.pc = "running"
            /\ batch_call.i < batch_call.queries
            /\ Len(requests) < MaxBatchRequests
            /\ IF bus = "up"
               THEN /\ requests' = Append(requests, Request(request_id, 40))
                    /\ batch_call' = [batch_call EXCEPT !.pc = "sleeping"]
               ELSE /\ requests' = requests
                    /\ batch_call' = CountItem(batch_call, request_id,
                                               NoDecision, TRUE)
            /\ UNCHANGED <<core_results, lumen_decisions, results_cache,
                           nova_returned, gateway, strategy_call,
                           synthesis_call, traces, trace_reply, loops, stores,
                           is_running, synthesized, scheduled, subscription,
                           analytic>>

\* During the sleep the Correlator may publish the Decision of the
\* request just published.
BatchDecision ==
    LET request_id == BatchRequestId(batch_call.batch_id, batch_call.i)
    IN  /\ batch_call.pc = "sleeping"
        /\ Offsets(lumen_decisions, request_id) = {}
        /\ lumen_decisions' =
               Append(lumen_decisions, [request_id |-> request_id])
        /\ UNCHANGED <<requests, core_results, results_cache, nova_returned,
                       gateway, strategy_call, synthesis_call, traces,
                       trace_reply, loops, stores, is_running, synthesized,
                       scheduled, subscription, analytic, batch_call>>

\* The second half: xread of the first entries of lumen_decisions, the
\* search for the request's decision, InsightResponse(...).  xread may
\* raise; building the response raises when the decision lacks a field
\* (incomplete).
BatchRead ==
    \E bus \in ReadStates, incomplete \in BOOLEAN :
        LET request_id == BatchRequestId(batch_call.batch_id, batch_call.i)
            found == FirstMatch(XRead(lumen_decisions, BatchReadCount),
                                request_id)
            raised == \/ bus = "read_down"
                      \/ found # NoDecision /\ incomplete
        IN  /\ batch_call.pc = "sleeping"
            /\ batch_call' =
                   [CountItem(batch_call, request_id, found, raised)
                       EXCEPT !.pc = "running"]
            /\ UNCHANGED <<requests, core_results, lumen_decisions,
                           results_cache, nova_returned, gateway,
                           strategy_call, synthesis_call, traces, trace_reply,
                           loops, stores, is_running, synthesized, scheduled,
                           subscription, analytic>>

\* return BatchInsightResponse(...)
BatchReturn ==
    /\ batch_call.pc = "running"
    /\ batch_call.i = batch_call.queries
    /\ batch_call' = [batch_call EXCEPT
                    !.pc = "returned",
                    !.response = [total_processed |-> Len(batch_call.results),
                                  failed_count |-> batch_call.failed_count,
                                  results |-> batch_call.results]]
    /\ UNCHANGED <<requests, core_results, lumen_decisions, results_cache,
                   nova_returned, gateway, strategy_call, synthesis_call,
                   traces, trace_reply, loops, stores, is_running,
                   synthesized, scheduled, subscription, analytic>>

\* ------------------------------------------------------------ CognitiveBus
\* subscribe_to_requests before its first xread: last_id = '0'; delivered
\* holds the messages its callback was invoked with, in order of invocation.
NoSubscription == [last_id |-> 0, delivered |-> <<>>]

\* CognitiveBus.publish_request with any message, a request or a message
\* without request_id or query, while the subscription runs.
BusPublish ==
    \E message \in {Request(Len(requests) + 1, qlen) :
                        qlen \in QueryLens \cup {NoQuery}}
                      \cup {Request(0, qlen) : qlen \in QueryLens} :
        /\ Len(requests) < MaxSubscribed
        /\ requests' = Append(requests, message)
        /\ UNCHANGED <<core_results, lumen_decisions, results_cache,
                       nova_returned, gateway, strategy_call, synthesis_call,
                       traces, trace_reply, loops, stores, is_running,
                       synthesized, scheduled, subscription, analytic,
                       batch_call>>

\* The messages of one xread handed to the callback one by one, last_id
\* following each.
RECURSIVE Deliver(_, _, _)
Deliver(sub, messages, i) ==
    IF i > Len(messages) THEN sub
    ELSE Deliver([last_id |-> sub.last_id + 1,
                  delivered |-> Append(sub.delivered, messages[i])],
                 messages, i + 1)

\* One iteration of the loop of subscribe_to_requests that found messages
\* (an iteration whose xread returns nothing changes nothing).
SubscribeIteration ==
    LET messages == XReadAfter(requests, subscription.last_id,
                               SubscribeReadCount)
    IN  /\ messages # <<>>
        /\ subscription' = Deliver(subscription, messages, 1)
        /\ UNCHANGED <<requests, core_results, lumen_decisions, results_cache,
                       nova_returned, gateway, strategy_call, synthesis_call,
                       traces, trace_reply, loops, stores, is_running,
                       synthesized, scheduled, analytic, batch_call>>

\* ------------------------------------------------------------ specifications
NoCall == [alignment |-> 0, conflict |-> 0, novelty |-> 0, result |-> "none"]
IdleGateway == [pc |-> "idle", request_id |-> 0, elapsed |-> 0,
                decision |-> NoDecision, status |-> 0,
                read_to |-> 0, rescanned |-> FALSE]
NoOutcome == [raised |-> FALSE, alignment |-> -1, conflict |-> -1,
              novelty |-> -1, strategy |-> "none", insight |-> Raised,
              confidence |-> -1]
NoSynthesis ==
    [pc |-> "idle",
     nova |-> [candidate_actions |-> <<>>, confidence |-> 0],
     orvyn |-> [analogies |-> <<>>, confidence |-> 0,
                innovation_potential |-> 0, domain_coverage |-> 0,
                mentions_increase |-> FALSE],
     embed |-> [fails |-> FALSE, dot |-> 0],
     out |-> NoOutcome]
NoReply == [request_id |-> 0, status |-> 0, age |-> 0]
LoopsRunning == [nova |-> "running", lumen |-> "running"]
NoStores == [nova |-> NotStored, lumen |-> NotStored]
AllRunning == [nova |-> TRUE, lumen |-> TRUE]
NoPair == Pair(NoResult, NoResult)

\* Workers and Correlator on empty streams.
Init ==
    /\ requests = <<>>
    /\ core_results = <<>>
    /\ lumen_decisions = <<>>
    /\ results_cache = EmptyMap
    /\ nova_returned = NoResult
    /\ gateway = IdleGateway
    /\ strategy_call = NoCall
    /\ synthesis_call = NoSynthesis
    /\ traces = EmptyMap
    /\ trace_reply = NoReply
    /\ loops = LoopsRunning
    /\ stores = NoStores
    /\ is_running = AllRunning
    /\ synthesized = NoPair
    /\ scheduled = "main"
    /\ subscription = NoSubscription
    /\ analytic = NoAnalytic
    /\ batch_call = NoBatch

Next ==
    \/ PublishRequest
    \/ NovaIteration
    \/ OrvynPublish
    \/ LumenIteration

Spec == Init /\ [][Next]_vars

\* The loops keep running: each iteration that can change the state is
\* eventually taken.
FairSpec == Spec /\ WF_vars(NovaIteration) /\ WF_vars(LumenIteration)

\* The Gateway alone.  The streams are durable: when the API process starts,
\* lumen_decisions holds the decisions of the requests served before
\* (ids -1, -2, ...).
Backlog(n) == [i \in 1..n |-> [request_id |-> 0 - i - 1]]

InitGateway ==
    /\ requests = <<>>
    /\ core_results = <<>>
    /\ \E n \in 0..MaxBacklog : lumen_decisions = Backlog(n)
    /\ results_cache = EmptyMap
    /\ nova_returned = NoResult
    /\ gateway = IdleGateway
    /\ strategy_call = NoCall
    /\ synthesis_call = NoSynthesis
    /\ traces = EmptyMap
    /\ trace_reply = NoReply
    /\ loops = LoopsRunning
    /\ stores = NoStores
    /\ is_running = AllRunning
    /\ synthesized = NoPair
    /\ scheduled = "main"
    /\ subscription = NoSubscription
    /\ analytic = NoAnalytic
    /\ batch_call = NoBatch

NextGateway ==
    \/ ThinkPublish
    \/ DecisionArrives
    \/ GatewayPoll
    \/ Tick

SpecGateway == InitGateway /\ [][NextGateway]_vars

FairSpecGateway == SpecGateway /\ WF_vars(GatewayPoll) /\ WF_vars(Tick)

\* A think call among concurrent ones: while it waits, other calls publish
\* their requests, and the decisions channel receives their Decisions and
\* messages without request_id.
NextConcurrent ==
    \/ NextGateway
    \/ PublishRequest
    \/ StrayDecision

SpecConcurrent == InitGateway /\ [][NextConcurrent]_vars

\* The wait of a think call, with what each of its polls reads.
NextWait ==
    \/ ThinkPublish
    \/ DecisionArrives
    \/ GatewayScan
    \/ Tick

SpecWait == InitGateway /\ [][NextWait]_vars

\* The Gateway and its traces over a span of hours.
NextTrace ==
    \/ ThinkPublish
    \/ DecisionArrives
    \/ GatewayPoll
    \/ Tick
    \/ TimePasses
    \/ GetTraceCall

SpecTrace == Init /\ [][NextTrace]_vars

\* The two loops on a bus that may fail in any iteration.
NextLoops ==
    \/ PublishRequest
    \/ NovaLoop
    \/ OrvynStep(MaxLoopResults, OrvynContents)
    \/ LumenLoop

SpecLoops == Init /\ [][NextLoops]_vars

\* The Analytic loop alone, on a requests stream that also carries
\* messages it cannot recognize.
NextIntake ==
    \/ PublishRequest
    \/ PublishMalformed
    \/ NovaIteration

SpecIntake == Init /\ [][NextIntake]_vars

FairSpecIntake == SpecIntake /\ WF_vars(NovaIteration)

\* The two loops with a record store that may fail in any call.
NovaStore == \E store \in StoreStates : NovaRun(MaxLoopResults, "up", store)
LumenStore == \E store \in StoreStates : LumenRun("up", store)

NextStore ==
    \/ PublishRequest
    \/ NovaStore
    \/ OrvynStep(MaxLoopResults, {UsualContent})
    \/ LumenStore

SpecStore == Init /\ [][NextStore]_vars

\* The two loops and their stop() methods, each iteration in two steps:
\* the while test, then the body.
NextShutdown ==
    \/ PublishRequest
    \/ OrvynStep(MaxLoopResults, {UsualContent})
    \/ \E core \in {"nova", "lumen"} : Stop(core)
    \/ NovaTest
    \/ NovaFinish
    \/ LumenTest
    \/ LumenFinish

SpecShutdown == Init /\ [][NextShutdown]_vars

\* The loops' tasks keep being scheduled, and an iteration that has begun
\* ends: its xread blocks for 5000 ms at most.
FairSpecShutdown ==
    SpecShutdown /\ WF_vars(NovaTest) /\ WF_vars(NovaFinish)
                 /\ WF_vars(LumenTest) /\ WF_vars(LumenFinish)

\* ------------------------------------------------------------ event loop
\* The tasks of the event loop of run_full_system_test: the coroutine
\* itself and the two start_listening tasks it created.
Tasks == {"main", "nova", "lumen"}

\* A task suspends: the event loop runs another one.
Suspend(task) ==
    /\ scheduled = task
    /\ scheduled' \in Tasks \ {task}

\* run_full_system_test reaches one of its await asyncio.sleep(...).
MainAwait ==
    /\ Suspend("main")
    /\ UNCHANGED <<requests, core_results, lumen_decisions, results_cache,
                   nova_returned, gateway, strategy_call, synthesis_call,
                   traces, trace_reply, loops, stores, is_running,
                   synthesized, subscription, analytic, batch_call>>

\* The Analytic loop runs one iteration while its task has the event loop:
\* redis_client.xread is a plain call that blocks the thread, and
\* process_request has no await that suspends, so the task keeps the event
\* loop through the iteration and into the next.
NovaTurn ==
    /\ scheduled = "nova"
    /\ loops.nova = "running"
    /\ IsRunning("nova")
    /\ \E bus \in BusStates :
           IF bus # "read_down" /\ XRead(requests, NovaReadCount) = <<>>
           THEN UNCHANGED vars
           ELSE NovaBody(MaxLoopResults, bus, "ok")

\* The same for the Correlator loop.
LumenTurn ==
    /\ scheduled = "lumen"
    /\ loops.lumen = "running"
    /\ IsRunning("lumen")
    /\ \E bus \in BusStates : LumenBody(MaxDecisions, bus, "ok")

\* await asyncio.sleep(1) in the except branch of a loop: the only await of
\* the loops that suspends their task.
LoopSleep(core) ==
    /\ loops[core] = AfterException
    /\ Suspend(core)
    /\ loops' = [loops EXCEPT ![core] = "running"]
    /\ UNCHANGED <<requests, core_results, lumen_decisions, results_cache,
                   nova_returned, gateway, strategy_call, synthesis_call,
                   traces, trace_reply, stores, is_running, synthesized,
                   subscription, analytic, batch_call>>

NextScheduling ==
    \/ PublishRequest
    \/ OrvynStep(MaxLoopResults, {UsualContent})
    \/ MainAwait
    \/ NovaTurn
    \/ LumenTurn
    \/ \E core \in {"nova", "lumen"} : LoopSleep(core)

SpecScheduling == Init /\ [][NextScheduling]_vars

\* The task that has the event loop goes on running.
FairSpecScheduling ==
    SpecScheduling /\ WF_vars(MainAwait) /\ WF_vars(NovaTurn)
                   /\ WF_vars(LumenTurn)
                   /\ WF_vars(\E core \in {"nova", "lumen"} : LoopSleep(core))

\* The Gateway, the workers and the Correlator on one bus that may fail in
\* any iteration of a loop.
NextSystem ==
    \/ ThinkPublish
    \/ GatewayPoll
    \/ NovaLoop
    \/ OrvynStep(MaxLoopResults, {UsualContent})
    \/ LumenLoop

SpecSystem == Init /\ [][NextSystem]_vars

\* Runs of the Analytic worker on one query and context.
InitAnalytic ==
    /\ requests = <<>>
    /\ core_results = <<>>
    /\ lumen_decisions = <<>>
    /\ results_cache = EmptyMap
    /\ nova_returned = NoResult
    /\ gateway = IdleGateway
    /\ strategy_call = NoCall
    /\ synthesis_call = NoSynthesis
    /\ traces = EmptyMap
    /\ trace_reply = NoReply
    /\ loops = LoopsRunning
    /\ stores = NoStores
    /\ is_running = AllRunning
    /\ synthesized = NoPair
    /\ scheduled = "main"
    /\ subscription = NoSubscription
    /\ batch_call = NoBatch
    /\ \E query \in Queries, context \in Contexts :
           analytic = [query |-> query, context |-> context, runs |-> <<>>]

SpecAnalytic == InitAnalytic /\ [][AnalyticRun]_vars

\* Think calls and batch calls, one batch call at a time, and the
\* Correlator's decisions as the endpoints see them.
NextBatch ==
    \/ ThinkCall
    \/ BatchStart
    \/ BatchPublish
    \/ BatchRead
    \/ BatchDecision
    \/ BatchReturn

SpecBatch == Init /\ [][NextBatch]_vars

\* A subscriber of the requests channel and the publishers.
NextSubscribe ==
    \/ BusPublish
    \/ SubscribeIteration

SpecSubscribe == Init /\ [][NextSubscribe]_vars

\* The subscriber's loop goes on: while True.
FairSpecSubscribe == SpecSubscribe /\ WF_vars(SubscribeIteration)

\* The Correlator loop alone, fed by the workers' results.
NextCorrelator ==
    \/ ResultArrives
    \/ LumenIteration

SpecCorrelator == Init /\ [][NextCorrelator]_vars

FairSpecCorrelator == SpecCorrelator /\ WF_vars(LumenIteration)

\* The Correlator loop on a channel that also carries results of other
\* cores.
NextForeign ==
    \/ ResultArrives
    \/ ForeignArrives
    \/ LumenIteration

SpecForeign == Init /\ [][NextForeign]_vars

FairSpecForeign == SpecForeign /\ WF_vars(LumenIteration)

\* The whole pipeline with one Gateway call at a time.
NextPipeline ==
    \/ ThinkPublish
    \/ NovaStep(MaxPipelineResults)
    \/ OrvynStep(MaxPipelineResults, {UsualContent})
    \/ LumenIteration
    \/ GatewayPoll
    \/ Tick

SpecPipeline == Init /\ [][NextPipeline]_vars

FairSpecPipeline ==
    SpecPipeline /\ WF_vars(NovaStep(MaxPipelineResults))
                 /\ WF_vars(LumenIteration)
                 /\ WF_vars(GatewayPoll) /\ WF_vars(Tick)

\* select_strategy on scores around the three thresholds.
Scores == {0, 20, 34, 35, 36, 44, 45, 46, 50, 74, 75, 76, 80, 100}

InitStrategy ==
    /\ requests = <<>>
    /\ core_results = <<>>
    /\ lumen_decisions = <<>>
    /\ results_cache = EmptyMap
    /\ nova_returned = NoResult
    /\ gateway = IdleGateway
    /\ \E a \in Scores, c \in Scores, n \in Scores :
           strategy_call = [alignment |-> a, conflict |-> c, novelty |-> n,
                            result |-> "none"]
    /\ synthesis_call = NoSynthesis
    /\ traces = EmptyMap
    /\ trace_reply = NoReply
    /\ loops = LoopsRunning
    /\ stores = NoStores
    /\ is_running = AllRunning
    /\ synthesized = NoPair
    /\ scheduled = "main"
    /\ subscription = NoSubscription
    /\ analytic = NoAnalytic
    /\ batch_call = NoBatch

NextStrategy == SelectStrategyCall

SpecStrategy == InitStrategy /\ [][NextStrategy]_vars

\* process_core_results on every combination of the payloads and of the
\* embedding outcome.
InitSynthesis ==
    /\ requests = <<>>
    /\ core_results = <<>>
    /\ lumen_decisions = <<>>
    /\ results_cache = EmptyMap
    /\ nova_returned = NoResult
    /\ gateway = IdleGateway
    /\ strategy_call = NoCall
    /\ \E nova \in NovaPayloads, orvyn \in OrvynPayloads,
          embed \in EmbedOutcomes :
           synthesis_call = [pc |-> "called", nova |-> nova, orvyn |-> orvyn,
                             embed |-> embed, out |-> NoOutcome]
    /\ traces = EmptyMap
    /\ trace_reply = NoReply
    /\ loops = LoopsRunning
    /\ stores = NoStores
    /\ is_running = AllRunning
    /\ synthesized = NoPair
    /\ scheduled = "main"
    /\ subscription = NoSubscription
    /\ analytic = NoAnalytic
    /\ batch_call = NoBatch

NextSynthesis == SynthesisCall

SpecSynthesis == InitSynthesis /\ [][NextSynthesis]_vars

\* The analogy lists generate_insight is called on: up to
\* MaxInsightAnalogies analogies of three similarities, in every order.
Strategies == {"harmony", "creative", "conservative"}
InsightAnalogies ==
    SeqsUpTo([similarity : {30, 60, 90}, innovation : {FALSE}],
             MaxInsightAnalogies)

\* A call of generate_insight with any of the three strategies.
InsightCall ==
    \E strategy \in Strategies :
        /\ synthesis_call.pc = "called"
        /\ LET insight == GenerateInsight(synthesis_call.nova,
                                          synthesis_call.orvyn, strategy)
           IN  synthesis_call' =
                   [synthesis_call EXCEPT
                       !.pc = "insight",
                       !.out = [NoOutcome EXCEPT !.strategy = strategy,
                                                 !.raised = insight.raised,
                                                 !.insight = insight]]
        /\ UNCHANGED <<requests, core_results, lumen_decisions, results_cache,
                       nova_returned, gateway, strategy_call, traces,
                       trace_reply, loops, stores, is_running, synthesized,
                       scheduled, subscription, analytic, batch_call>>

\* generate_insight on every list of analogies and every strategy.
InitInsight ==
    /\ requests = <<>>
    /\ core_results = <<>>
    /\ lumen_decisions = <<>>
    /\ results_cache = EmptyMap
    /\ nova_returned = NoResult
    /\ gateway = IdleGateway
    /\ strategy_call = NoCall
    /\ \E actions \in SeqsUpTo(ActionKinds, MaxActions),
          analogies \in InsightAnalogies :
           synthesis_call =
               [pc |-> "called",
                nova |-> [candidate_actions |-> actions, confidence |-> 70],
                orvyn |-> [analogies |-> analogies, confidence |-> 90,
                           innovation_potential |-> 60,
                           domain_coverage |-> Len(analogies),
                           mentions_increase |-> FALSE],
                embed |-> [fails |-> FALSE, dot |-> 80],
                out |-> NoOutcome]
    /\ traces = EmptyMap
    /\ trace_reply = NoReply
    /\ loops = LoopsRunning
    /\ stores = NoStores
    /\ is_running = AllRunning
    /\ synthesized = NoPair
    /\ scheduled = "main"
    /\ subscription = NoSubscription
    /\ analytic = NoAnalytic
    /\ batch_call = NoBatch

NextInsight == InsightCall

SpecInsight == InitInsight /\ [][NextInsight]_vars

\* ------------------------------------------------------------ properties
\* The workers whose result for request r is on core_results.
CoresPublished(r) == {core_results[i].core : i \in Offsets(core_results, r)}

\* C1: for every request_id at most one Decision is ever published to
\* lumen_decisions, also when the Correlator loop observes the request's
\* PartialResults again on a later iteration.
C1_AtMostOneDecision ==
    \A r \in RequestIds : Cardinality(Offsets(lumen_decisions, r)) <= 1

\* C2: once both a 'nova' and an 'orvyn' PartialResult of a request are on
\* core_results, the Correlator loop eventually publishes a Decision for it,
\* however many other entries precede them on the stream.
C2_BothPublishedLeadsToDecision ==
    \A r \in RequestIds :
        (CoresPublished(r) = {"nova", "orvyn"})
            ~> (Offsets(lumen_decisions, r) # {})

\* With C2: a Decision of a request exists only when both of its results
\* are among the first LumenReadCount entries of core_results, the only ones
\* the loop reads, whatever the length of the stream.
C2_DecidedOnlyWithinFirstBatch ==
    \A r \in RequestIds :
        Offsets(lumen_decisions, r) # {} =>
            LET batch == XRead(core_results, LumenReadCount)
            IN  {batch[i].core : i \in Offsets(batch, r)} = {"nova", "orvyn"}

\* C3: no request_id ever has two 'nova' PartialResults on core_results.
C3_OneNovaResultPerRequest ==
    \A r \in RequestIds : Cardinality(OffsetsOf(core_results, r, "nova")) <= 1

\* C4: every Request on the requests stream is eventually answered by the
\* Analytic worker with a PartialResult carrying its request_id, also when
\* it was published after other requests.
C4_EveryRequestAnswered ==
    \A r \in RequestIds :
        (Offsets(requests, r) # {}) ~> (OffsetsOf(core_results, r, "nova") # {})

\* With C4: the Analytic worker only ever answers the first entry of the
\* requests stream.
C4_OnlyFirstRequestAnswered ==
    \A i \in DOMAIN core_results :
        core_results[i].core = "nova"
            => core_results[i].request_id = requests[1].request_id

\* C5: if a Decision with the call's request_id is on lumen_decisions
\* before the timeout has elapsed, the call returns that Decision, however
\* many Decisions of other requests are on the stream.
C5_MatchingDecisionReturned ==
    \A r \in RequestIds :
        (/\ gateway.pc = "waiting"
         /\ gateway.request_id = r
         /\ gateway.elapsed < Timeout
         /\ Offsets(lumen_decisions, r) # {})
            ~> (/\ gateway.pc = "done"
                /\ gateway.request_id = r
                /\ gateway.decision.request_id = r)

\* With C5: a call returns a Decision only when it is among the first
\* GatewayReadCount entries of lumen_decisions.
C5_ReturnedOnlyFromFirstBatch ==
    (gateway.pc = "done" /\ gateway.decision # NoDecision)
        => Offsets(XRead(lumen_decisions, GatewayReadCount),
                   gateway.request_id) # {}

\* C6: a think call whose wait found no matching Decision answers with
\* status 408, not with the status 500 of the other failures.
C6_TimeoutAnswers408 ==
    (gateway.pc = "done" /\ gateway.decision = NoDecision)
        => gateway.status = 408

\* C7: while at most one worker's PartialResult of a request is on
\* core_results no Decision for it is on lumen_decisions, a Gateway call
\* for it that has ended returned no Decision and ended when the timeout
\* had elapsed, and every Gateway call ends.
C7_OneWorkerNoDecisionAndTimeout ==
    /\ [](\A r \in RequestIds :
            Cardinality(CoresPublished(r)) <= 1
                => Offsets(lumen_decisions, r) = {})
    /\ []((gateway.pc = "done"
            /\ Cardinality(CoresPublished(gateway.request_id)) <= 1)
              => (gateway.decision = NoDecision /\ gateway.elapsed >= Timeout))
    /\ \A r \in RequestIds :
          (gateway.pc = "waiting" /\ gateway.request_id = r)
              ~> (gateway.pc = "done" /\ gateway.request_id = r)

\* A call for a request answered by one worker only has ended at the timeout
\* without a Decision.
C7_Witness ==
    /\ gateway.pc = "done"
    /\ Cardinality(CoresPublished(gateway.request_id)) = 1
    /\ gateway.decision = NoDecision
    /\ gateway.elapsed = Timeout

\* C8: a correlation entry of a request with only one worker's
\* PartialResult is eventually evicted from results_cache (unless the other
\* worker's result is published after all).
C8_IncompleteEntryEvicted ==
    \A r \in RequestIds :
        (r \in DOMAIN results_cache /\ Cardinality(CoresPublished(r)) = 1)
            ~> (r \notin DOMAIN results_cache
                \/ Cardinality(CoresPublished(r)) = 2)

\* With C8: an entry leaves results_cache only in a step that publishes a
\* Decision of its request.
C8_EntryLeavesOnlyOnSynthesis ==
    [][\A r \in RequestIds :
          (r \in DOMAIN results_cache /\ r \notin DOMAIN results_cache')
              => Cardinality(Offsets(lumen_decisions', r))
                     > Cardinality(Offsets(lumen_decisions, r))]_vars

\* C9: when process_request ended with the fallback result (confidence
\* 0.3) for a request, that degraded PartialResult is on core_results.
C9_FallbackPublished ==
    (nova_returned.core = "nova"
     /\ nova_returned.confidence = FallbackConfidence)
        => \E i \in DOMAIN core_results : core_results[i] = nova_returned

\* C10: select_strategy returns 'harmony' iff alignment >= 0.75, 'creative'
\* iff alignment is in [0.45, 0.75) and conflict >= 0.35, and
\* 'conservative' otherwise, whatever novelty is.
C10_SelectStrategyPolicy ==
    strategy_call.result # "none" =>
        LET a == strategy_call.alignment
            c == strategy_call.conflict
            res == strategy_call.result
        IN  /\ res \in {"harmony", "creative", "conservative"}
            /\ (res = "harmony") <=> (a >= 75)
            /\ (res = "creative") <=> (a < 75 /\ a >= 45 /\ c >= 35)
            /\ (res = "conservative") <=> (a < 45 \/ (a < 75 /\ c < 35))

\* select_strategy was called exactly at alignment_mid and conflict_mid.
C10_Witness ==
    /\ strategy_call.alignment = 45
    /\ strategy_call.conflict = 35
    /\ strategy_call.result = "creative"

\* The arguments and the result of the process_core_results call.
NovaPayload == synthesis_call.nova
OrvynPayload == synthesis_call.orvyn
Outcome == synthesis_call.out
Returned == synthesis_call.pc = "returned"

\* C11: for all valid inputs the alignment, the conflict and the novelty
\* computed by the Synthesizer, and the confidence of the Decision, each lie
\* in [0, 1].
C11_ScoresInUnitInterval ==
    Returned =>
        /\ Outcome.alignment \in 0..100
        /\ Outcome.conflict \in 0..100
        /\ Outcome.novelty \in 0..1000
        /\ ~Outcome.raised => Outcome.confidence \in 0..1000

\* With C11: alignment, novelty and confidence do lie in [0, 1]; conflict
\* lies in [0, 2].
C11_AllButConflictInUnitInterval ==
    Returned =>
        /\ Outcome.alignment \in 0..100
        /\ Outcome.conflict \in 0..200
        /\ Outcome.novelty \in 0..1000
        /\ ~Outcome.raised => Outcome.confidence \in 0..1000

\* The scenario of the specification: one action "Reduce water waste",
\* Analytic confidence 0.7; one analogy of similarity 0.9 tagged
\* "sustainability", innovation_potential 0.6, domain_coverage 2 (the
\* payload's confidence field being the analogy's similarity 0.9); the
\* embedding answering 0.8.
Scenario ==
    /\ NovaPayload =
           [candidate_actions |-> <<[traditional |-> FALSE, reduce |-> TRUE]>>,
            confidence |-> 70]
    /\ OrvynPayload =
           [analogies |-> <<[similarity |-> 90, innovation |-> FALSE]>>,
            confidence |-> 90, innovation_potential |-> 60,
            domain_coverage |-> 2, mentions_increase |-> FALSE]
    /\ synthesis_call.embed = [fails |-> FALSE, dot |-> 80]

\* C12 as stated: on the scenario the Synthesizer computes conflict 0,
\* selects 'harmony' and produces confidence 0.81.
C12_ScenarioConfidence081 ==
    (Returned /\ Scenario) =>
        /\ ~Outcome.raised
        /\ Outcome.conflict = 0
        /\ Outcome.strategy = "harmony"
        /\ Outcome.confidence = 810

\* C12 amended: on the scenario the Synthesizer computes conflict 0,
\* selects 'harmony' and produces confidence
\* 0.4*0.7 + 0.3*0.9 + 0.2*0.8 - 0.1*0 = 0.71.
C12_ScenarioConfidence071 ==
    (Returned /\ Scenario) =>
        /\ ~Outcome.raised
        /\ Outcome.alignment = 80
        /\ Outcome.conflict = 0
        /\ Outcome.strategy = "harmony"
        /\ Outcome.confidence = 710

\* process_core_results has returned on the scenario.
C12_Witness == Returned /\ Scenario /\ Outcome.confidence = 710

\* The greatest similarity among the analogies.
MaxSimilarity(analogies) == analogies[Strongest(analogies)].similarity

\* C13: the Decision's confidence equals 0.4*A.confidence +
\* 0.3*B.confidence + 0.2*alignment - 0.1*conflict clamped to [0, 1], where
\* B.confidence is the greatest similarity among the analogies.
C13_ConfidenceFromMaxSimilarity ==
    (Returned /\ ~Outcome.raised /\ OrvynPayload.analogies # <<>>) =>
        Outcome.confidence =
            Max(0, Min(1000, 4 * NovaPayload.confidence
                             + 3 * MaxSimilarity(OrvynPayload.analogies)
                             + 2 * Outcome.alignment - Outcome.conflict))

\* With C13: the confidence is that weighted sum with B.confidence read
\* from the confidence field of the Associative payload.
C13_ConfidenceFromPayloadField ==
    (Returned /\ ~Outcome.raised) =>
        Outcome.confidence =
            Max(0, Min(1000, 4 * NovaPayload.confidence
                             + 3 * OrvynPayload.confidence
                             + 2 * Outcome.alignment - Outcome.conflict))

\* C14: calculate_novelty_score returns 0.7*innovation_potential +
\* 0.3*min(domain_coverage/5, 1) clamped to [0, 1] for every
\* domain_coverage >= 0, above 5 included; domain_coverage 0 yields
\* 0.7*innovation_potential.
C14_NoveltyFormula ==
    Returned =>
        LET innovation == OrvynPayload.innovation_potential
            coverage == OrvynPayload.domain_coverage
        IN  /\ Outcome.novelty =
                   Max(0, Min(1000, 7 * innovation
                                    + 3 * Min(20 * coverage, 100)))
            /\ coverage = 0 => Outcome.novelty = 7 * innovation

\* With C14: the formula holds for domain_coverage up to 5.
C14_NoveltyFormulaUpToFive ==
    (Returned /\ OrvynPayload.domain_coverage <= 5) =>
        Outcome.novelty =
            Max(0, Min(1000, 7 * OrvynPayload.innovation_potential
                             + 3 * Min(20 * OrvynPayload.domain_coverage, 100)))

\* C15: generate_insight never fails on empty candidate_actions or empty
\* analogies: for each of the three strategies it returns an insight, with
\* a placeholder phrase in place of the missing part.
C15_InsightOnEmptyInputs ==
    (Returned /\ (NovaPayload.candidate_actions = <<>>
                  \/ OrvynPayload.analogies = <<>>)) =>
        /\ ~Outcome.raised
        /\ NovaPayload.candidate_actions = <<>> => Outcome.insight.action = 0

\* With C15: generate_insight fails only in 'harmony' without analogies and
\* in 'creative' with fewer than two; empty candidate_actions alone never
\* make it fail.
C15_InsightFailsOnlyOnFewAnalogies ==
    Returned =>
        (Outcome.raised <=>
            \/ (Outcome.strategy = "harmony"
                /\ Len(OrvynPayload.analogies) = 0)
            \/ (Outcome.strategy = "creative"
                /\ Len(OrvynPayload.analogies) < 2))

\* C16: when embedding fails, calculate_alignment_score returns 0.5 and the
\* error does not leave it: the synthesis goes on to strategy selection
\* with alignment 0.5.
C16_EmbeddingFailureNeutral ==
    (Returned /\ synthesis_call.embed.fails) =>
        /\ Outcome.alignment = 50
        /\ Outcome.strategy = SelectStrategy(50, Outcome.conflict,
                                             Outcome.novelty)
        /\ Outcome.strategy \in {"creative", "conservative"}

\* Embedding failed and the synthesis went on to a 'creative' Decision.
C16_Witness ==
    /\ Returned
    /\ synthesis_call.embed.fails
    /\ Outcome.alignment = 50
    /\ Outcome.strategy = "creative"
    /\ ~Outcome.raised
    /\ Outcome.confidence >= 0

\* C17: a trace is never presented past its time to live: get_trace
\* answers 200 only with a trace stored by save_trace less than 3600
\* seconds before, and answers 404 once 3600 seconds have elapsed and for a
\* request_id no trace was stored for.
C17_NoTracePastTTL ==
    /\ trace_reply.status \in {0, 200, 404}
    /\ trace_reply.status = 200 =>
           /\ trace_reply.age < 3600
           /\ Offsets(requests, trace_reply.request_id) # {}
           /\ Offsets(lumen_decisions, trace_reply.request_id) # {}
    /\ \A r \in DOMAIN traces : traces[r].age < 3600

\* get_trace answered 404 for a request whose trace had been stored and
\* presented before its expiry.
C17_Witness ==
    /\ trace_reply.status = 404
    /\ gateway.pc = "done"
    /\ gateway.request_id = trace_reply.request_id
    /\ gateway.status = 200
    /\ trace_reply.request_id \notin DOMAIN traces

\* C18: every Decision published to the decisions channel is eventually
\* recorded as a trace keyed by its request_id, whether or not the Gateway
\* wait of its request succeeded.
C18_EveryDecisionTraced ==
    \A r \in RequestIds :
        (Offsets(lumen_decisions, r) # {}) ~> (r \in DOMAIN traces)

\* With C18: a trace exists only for the request of a think call that
\* returned its Decision.
C18_TraceOnlyAfterSuccessfulWait ==
    \A r \in DOMAIN traces :
        \/ (gateway.request_id = r /\ gateway.pc = "done"
            /\ gateway.status = 200)
        \/ gateway.request_id > r

PairRaises(r) ==
    \E i \in OffsetsOf(core_results, r, "nova") :
        \E j \in OffsetsOf(core_results, r, "orvyn") :
            SynthesisRaises(core_results[i], core_results[j], "up", "ok")

\* C20: when the synthesis of one request raises, the Correlator still
\* eventually publishes a Decision for every other request whose two
\* results are on the channel, those published after the failing
\* request's results included.
C20_FailureIsolatedPerRequest ==
    \A r \in RequestIds :
        (CoresPublished(r) = {"nova", "orvyn"} /\ ~PairRaises(r))
            ~> (Offsets(lumen_decisions, r) # {})

\* The offset at which the second result of request r is on the channel.
CompletedAt(r) ==
    CHOOSE i \in Offsets(core_results, r) :
        \A j \in Offsets(core_results, r) : j <= i

\* With C20: no Decision is ever published for a request completed on the
\* channel behind a request whose synthesis raises.
C20_NothingDecidedBehindFailure ==
    \A r \in RequestIds, q \in RequestIds :
        (/\ CoresPublished(r) = {"nova", "orvyn"}
         /\ CoresPublished(q) = {"nova", "orvyn"}
         /\ PairRaises(q)
         /\ CompletedAt(q) < CompletedAt(r))
            => Offsets(lumen_decisions, r) = {}

\* The unrecognizable messages on the requests stream.
Unrecognized == {i \in DOMAIN requests : ~Recognizable(requests[i])}

\* C21: a message the Analytic worker cannot recognize (no request_id or
\* no query) is dropped without side effects: no PartialResult is
\* published for it and nothing is stored; and the worker goes on to
\* process the requests published after it.
C21_MalformedDroppedAndLoopGoesOn ==
    /\ [](\A i \in Unrecognized :
             OffsetsOf(core_results, requests[i].request_id, "nova") = {})
    /\ \A r \in RequestIds :
          (\E i \in Unrecognized, j \in Offsets(requests, r) :
               i < j /\ Recognizable(requests[j]))
              ~> (OffsetsOf(core_results, r, "nova") # {})

\* With C21: while the first message of the requests stream is
\* unrecognizable nothing is published, returned or stored, whatever is
\* published after it.
C21_NothingBehindMalformed ==
    (requests # <<>> /\ ~Recognizable(requests[1])) =>
        /\ core_results = <<>>
        /\ nova_returned = NoResult
        /\ stores.nova = NotStored

\* C22: a failure of the record store is not fatal to the pipeline: when
\* store_result or store_decision fails, the PartialResult respectively
\* the Decision it was to record is still published to its channel.
C22_StoreFailureNonFatal ==
    \A core \in DOMAIN stores :
        stores[core].outcome \in {"write_fails", "connect_fails"}
            => stores[core].published

\* With C22: the message is published after a failure of the INSERT, and
\* is not after a failure of sqlite3.connect; the Correlator loop then
\* caught the exception.
C22_OnlyWriteFailureNonFatal ==
    /\ \A core \in DOMAIN stores :
           /\ stores[core].outcome = "write_fails" => stores[core].published
           /\ stores[core].outcome = "connect_fails"
                  => ~stores[core].published
    /\ stores.nova.outcome = "connect_fails"
           => nova_returned.confidence = FallbackConfidence
    /\ stores.lumen.outcome = "connect_fails" => loops.lumen = "backoff"

\* C23: between the handling of two messages every correlation entry holds
\* at most two PartialResults, and no entry holding both a 'nova' and an
\* 'orvyn' result remains in results_cache: a complete entry is deleted in
\* the step that completed it.
C23_NoCompleteEntryCached ==
    \A r \in DOMAIN results_cache :
        /\ Cardinality(DOMAIN results_cache[r]) <= 2
        /\ ~EntryReady(results_cache[r])

\* With C23: a complete entry is in the cache only after an iteration that
\* ended by an exception, and no entry ever holds more than the two
\* workers' results.
C23_CompleteEntryOnlyAfterException ==
    \A r \in DOMAIN results_cache :
        /\ DOMAIN results_cache[r] \subseteq Cores
        /\ EntryReady(results_cache[r]) => loops.lumen = "backoff"

\* C24: synthesis happens only on a READY entry: every call of
\* process_core_results receives one 'nova' and one 'orvyn' PartialResult
\* of the same request_id, both read from core_results, and the Decision
\* it publishes carries that request_id; results of no worker or of one
\* worker only, the same worker twice included, never trigger a synthesis.
C24_SynthesisOnlyOnReadyEntry ==
    /\ synthesized # NoPair =>
           /\ synthesized.nova.core = "nova"
           /\ synthesized.orvyn.core = "orvyn"
           /\ synthesized.nova.request_id = synthesized.orvyn.request_id
           /\ \E i \in DOMAIN core_results :
                  core_results[i] = synthesized.nova
           /\ \E i \in DOMAIN core_results :
                  core_results[i] = synthesized.orvyn
           /\ loops.lumen = "running" =>
                  lumen_decisions[Len(lumen_decisions)].request_id
                      = synthesized.nova.request_id
    /\ \A i \in DOMAIN lumen_decisions :
           CoresPublished(lumen_decisions[i].request_id) = {"nova", "orvyn"}

\* A request whose 'nova' result was on the channel twice before its
\* 'orvyn' result has been synthesized, and another one, of which the
\* loop has cached the 'orvyn' result only, has not.
C24_Witness ==
    \E r \in RequestIds, q \in RequestIds :
        /\ synthesized # NoPair
        /\ synthesized.nova.request_id = r
        /\ Cardinality(OffsetsOf(core_results, r, "nova")) >= 2
        /\ \A i \in OffsetsOf(core_results, r, "nova") :
               \A j \in OffsetsOf(core_results, r, "orvyn") : i < j
        /\ Offsets(lumen_decisions, r) # {}
        /\ q \in DOMAIN results_cache
        /\ DOMAIN results_cache[q] = {"orvyn"}
        /\ Offsets(lumen_decisions, q) = {}

\* C25: the Gateway wait keeps its own cursor: each poll reads only the
\* entries after the last one returned by the previous poll of the call,
\* so no entry of lumen_decisions is scanned twice and no poll restarts
\* from the beginning of the stream.
C25_WaitKeepsCursor == ~gateway.rescanned

\* With C25: every poll reads from the beginning of the stream, and none
\* reads past its first GatewayReadCount entries.
C25_EveryPollReadsFirstBatch ==
    /\ gateway.read_to <= GatewayReadCount
    /\ gateway.rescanned => gateway.read_to >= 1
    /\ (gateway.pc = "done" /\ gateway.decision # NoDecision) =>
           Offsets(lumen_decisions, gateway.request_id) # {}
           /\ \E i \in Offsets(lumen_decisions, gateway.request_id) :
                  i <= gateway.read_to

\* C26: request_id is the sole correlation key at the Gateway: a think
\* call only ever returns a Decision whose request_id is the one it
\* generated and published for that call, whatever concurrent calls publish
\* and whatever the decisions channel holds.
C26_ReturnsOwnDecisionOnly ==
    (gateway.pc = "done" /\ gateway.decision # NoDecision) =>
        /\ gateway.decision.request_id = gateway.request_id
        /\ Cardinality(Offsets(requests, gateway.request_id)) = 1
        /\ gateway.status = 200

\* A call has returned its Decision although the Decision of a call that
\* published its request later, and a message without request_id, were
\* ahead of it on the channel.
C26_Witness ==
    /\ gateway.pc = "done"
    /\ gateway.decision.request_id = gateway.request_id
    /\ \E i \in DOMAIN lumen_decisions, j \in DOMAIN lumen_decisions,
          k \in Offsets(lumen_decisions, gateway.request_id) :
           /\ i < k
           /\ j < k
           /\ lumen_decisions[i].request_id > gateway.request_id
           /\ lumen_decisions[j].request_id = 0

\* The candidate actions that match the first, the second heuristic of
\* calculate_conflict_score.
MatchesTraditional ==
    {i \in DOMAIN NovaPayload.candidate_actions :
        /\ NovaPayload.candidate_actions[i].traditional
        /\ \E k \in DOMAIN OrvynPayload.analogies :
               OrvynPayload.analogies[k].innovation}
MatchesReduce ==
    {i \in DOMAIN NovaPayload.candidate_actions :
        /\ NovaPayload.candidate_actions[i].reduce
        /\ OrvynPayload.mentions_increase}

\* C27: the conflict score is the number of candidate actions matching at
\* least one of the two heuristics divided by the number of candidate
\* actions, each action counted at most once, and 0 when there are none.
C27_ConflictCountsEachActionOnce ==
    Returned =>
        Outcome.conflict =
            IF NovaPayload.candidate_actions = <<>> THEN 0
            ELSE (100 * Cardinality(MatchesTraditional \cup MatchesReduce))
                     \div Len(NovaPayload.candidate_actions)

\* With C27: the score is the number of heuristic matches, an action that
\* matches both counting twice, divided by the number of actions; it is
\* the claimed ratio when no action matches both, and 0 without actions.
C27_ConflictCountsMatches ==
    Returned =>
        /\ Outcome.conflict =
               (100 * (Cardinality(MatchesTraditional)
                       + Cardinality(MatchesReduce)))
                   \div Max(Len(NovaPayload.candidate_actions), 1)
        /\ NovaPayload.candidate_actions = <<>> => Outcome.conflict = 0

\* generate_insight has been called; the similarity of the k-th analogy of
\* its payload; the analogies its insight cites.
InsightMade == synthesis_call.pc = "insight"
Similarity(k) == OrvynPayload.analogies[k].similarity
Cited == Outcome.insight.cited

\* C28: under 'creative' with at least two analogies the insight combines
\* the first candidate action with exactly the two analogies of lowest
\* similarity, whatever their order in the payload; under 'harmony' with
\* at least one analogy it cites the single analogy of highest similarity
\* with the first candidate action.
C28_CreativeAndHarmonyCitations ==
    InsightMade =>
        /\ (Outcome.strategy = "creative"
            /\ Len(OrvynPayload.analogies) >= 2) =>
               /\ ~Outcome.raised
               /\ NovaPayload.candidate_actions # <<>>
                      => Outcome.insight.action = 1
               /\ Len(Cited) = 2
               /\ Cited[1] # Cited[2]
               /\ \A k \in DOMAIN OrvynPayload.analogies :
                      k \notin {Cited[1], Cited[2]} =>
                          /\ Similarity(k) >= Similarity(Cited[1])
                          /\ Similarity(k) >= Similarity(Cited[2])
        /\ (Outcome.strategy = "harmony"
            /\ Len(OrvynPayload.analogies) >= 1) =>
               /\ ~Outcome.raised
               /\ NovaPayload.candidate_actions # <<>>
                      => Outcome.insight.action = 1
               /\ Len(Cited) = 1
               /\ \A k \in DOMAIN OrvynPayload.analogies :
                      Similarity(k) <= Similarity(Cited[1])

\* A 'creative' insight on three analogies given in the order 0.9, 0.3,
\* 0.6 cites the second and the third.
C28_Witness ==
    /\ InsightMade
    /\ Outcome.strategy = "creative"
    /\ Len(OrvynPayload.analogies) = 3
    /\ Similarity(1) = 90
    /\ Similarity(2) = 30
    /\ Similarity(3) = 60
    /\ Cited = <<2, 3>>
    /\ Outcome.insight.action = 1

\* C29: under 'conservative' the insight leads with the first candidate
\* action and appends a hint if and only if there is at least one
\* analogy; the hint references the analogy of highest similarity,
\* whatever the order of the analogies in the payload.
C29_ConservativeHintCitesStrongest ==
    (InsightMade /\ Outcome.strategy = "conservative") =>
        /\ ~Outcome.raised
        /\ NovaPayload.candidate_actions # <<>> => Outcome.insight.action = 1
        /\ Cited # <<>> <=> OrvynPayload.analogies # <<>>
        /\ Cited # <<>> =>
               /\ Len(Cited) = 1
               /\ \A k \in DOMAIN OrvynPayload.analogies :
                      Similarity(k) <= Similarity(Cited[1])

\* With C29: the hint, present if and only if there is an analogy,
\* references the first analogy of the payload.
C29_ConservativeHintCitesFirst ==
    (InsightMade /\ Outcome.strategy = "conservative") =>
        /\ ~Outcome.raised
        /\ NovaPayload.candidate_actions # <<>> => Outcome.insight.action = 1
        /\ Cited = IF OrvynPayload.analogies # <<>> THEN <<1>> ELSE <<>>

C31_EveryTaskScheduledAgain ==
    \A task \in Tasks : []<>(scheduled = task)

\* With C31: a loop's task gives up the event loop only at the sleep
\* that follows an exception.
C31_LoopYieldsOnlyAfterException ==
    [][\A core \in {"nova", "lumen"} :
          (scheduled = core /\ scheduled' # core)
              => loops[core] = AfterException]_vars

\* C32: the pipeline respects causal order per request: a worker's
\* PartialResult of a request is on core_results only when the Request is
\* on requests, and a Decision of a request is on lumen_decisions only when
\* both its 'nova' and its 'orvyn' PartialResult are on core_results.
C32_CausalOrder ==
    /\ \A i \in DOMAIN core_results :
           Offsets(requests, core_results[i].request_id) # {}
    /\ \A i \in DOMAIN lumen_decisions :
           CoresPublished(lumen_decisions[i].request_id) = {"nova", "orvyn"}

\* A Decision is on lumen_decisions and all three channels hold entries of
\* its request.
C32_Witness ==
    \E i \in DOMAIN lumen_decisions :
        /\ Offsets(requests, lumen_decisions[i].request_id) # {}
        /\ OffsetsOf(core_results, lumen_decisions[i].request_id, "nova") # {}
        /\ OffsetsOf(core_results, lumen_decisions[i].request_id, "orvyn") # {}


IsPrefix(s, t) == Len(s) <= Len(t) /\ SubSeq(t, 1, Len(s)) = s

\* C33: the flow over the three channels is one-directional and
\* append-only: a step of think_endpoint changes only requests, a step of
\* the Analytic worker only core_results, a step of the Correlator only
\* lumen_decisions, and in every step each channel's content is a prefix of
\* its content after the step.
C33_AppendOnlyOneDirection ==
    [][/\ IsPrefix(requests, requests')
       /\ IsPrefix(core_results, core_results')
       /\ IsPrefix(lumen_decisions, lumen_decisions')
       /\ (ThinkPublish \/ GatewayPoll)
              => UNCHANGED <<core_results, lumen_decisions>>
       /\ NovaLoop => UNCHANGED <<requests, lumen_decisions>>
       /\ LumenLoop => UNCHANGED <<requests, core_results>>]_vars

\* Each of the three has appended to its channel, the Analytic worker more
\* than once.
C33_Witness ==
    /\ requests # <<>>
    /\ \E i, j \in DOMAIN core_results :
           i < j /\ core_results[i].core = "nova" /\ core_results[j].core = "nova"
    /\ lumen_decisions # <<>>


\* C34: subscribe_to_requests delivers the requests channel as an ordered
\* log: what its callback has been invoked with is always the channel's
\* content up to the cursor, each entry once and in offset order; the
\* cursor never moves backwards; and every published request is eventually
\* delivered, those published while it runs included.
C34_OrderedLog ==
    /\ [](/\ subscription.last_id <= Len(requests)
          /\ subscription.delivered =
                 SubSeq(requests, 1, subscription.last_id))
    /\ [][subscription'.last_id >= subscription.last_id]_vars
    /\ \A i \in 1..MaxSubscribed :
           (Len(requests) >= i) ~> (Len(subscription.delivered) >= i)

\* The callback was invoked with every message of a channel that is full.
C34_Witness ==
    /\ Len(subscription.delivered) = MaxSubscribed
    /\ subscription.delivered = requests


\* C35: the Analytic payload is a function of (query, context): two runs
\* on equal query and context, the embedding model in the same condition in
\* both (encoding, or failing to encode), yield equal logic_tree,
\* candidate_actions and confidence.
C35_EqualInputsEqualPayload ==
    \A i, j \in DOMAIN analytic.runs :
        (/\ analytic.runs[i].encode = analytic.runs[j].encode
         /\ analytic.runs[i].raises = analytic.runs[j].raises
         /\ analytic.runs[i].fails = analytic.runs[j].fails)
            => analytic.runs[i].payload = analytic.runs[j].payload

\* With C35: the runs in which the model encodes the texts, or in which the
\* fallback result is built, agree; two runs differ only when encode_texts
\* answered with random embeddings.
C35_EqualPayloadUnlessRandomEmbeddings ==
    \A i, j \in DOMAIN analytic.runs :
        (/\ analytic.runs[i].raises = analytic.runs[j].raises
         /\ analytic.runs[i].fails = analytic.runs[j].fails
         /\ analytic.runs[i].payload # analytic.runs[j].payload)
            => \/ analytic.runs[i].encode = "random"
               \/ analytic.runs[j].encode = "random"

\* C36: every Analytic payload is valid, for every query, the empty one
\* included: candidate_actions is not empty, and confidence lies in [0, 1],
\* at most 0.95 when computed and 0.3 in a fallback result.
C36_PayloadValid ==
    \A i \in DOMAIN analytic.runs :
        LET run == analytic.runs[i]
        IN  /\ run.payload.candidate_actions # <<>>
            /\ run.payload.confidence >= 0
            /\ run.payload.confidence <= 100
            /\ run.fails => run.payload.confidence = FallbackConfidence
            /\ ~run.fails => run.payload.confidence <= 95

\* A computed payload and a fallback payload of a query longer than 100
\* characters.
C36_Witness ==
    /\ analytic.query.len > 100
    /\ \E i, j \in DOMAIN analytic.runs :
           analytic.runs[i].fails /\ ~analytic.runs[j].fails

\* A computed payload of the empty query.
C36_WitnessEmptyQuery ==
    /\ analytic.query.len = 0
    /\ \E i \in DOMAIN analytic.runs : ~analytic.runs[i].fails


\* C37: every Request published to the requests channel carries a
\* request_id different from those of all Requests published before, over
\* any sequence of think calls and batch calls, those that supply their own
\* batch_id included.
C37_RequestIdsDistinct ==
    \A i, j \in DOMAIN requests :
        i # j => requests[i].request_id # requests[j].request_id

\* With C37: the ids that repeat are ids of batch queries; the id of a
\* think call is on the channel once.
C37_OnlyBatchIdsRepeat ==
    \A i, j \in DOMAIN requests :
        (i # j /\ requests[i].request_id = requests[j].request_id)
            => IsBatchRequestId(requests[i].request_id)

\* C39: batch_insight_request accounts for every query exactly once: in the
\* response total_processed + failed_count is the number of queries and
\* total_processed is the length of results; and after each iteration of
\* its loop the queries handled are those in results plus those failed.
C39_EveryQueryCountedOnce ==
    /\ batch_call.pc = "running"
           => Len(batch_call.results) + batch_call.failed_count = batch_call.i
    /\ batch_call.pc = "returned"
           => /\ batch_call.response.total_processed
                     + batch_call.response.failed_count = batch_call.queries
              /\ batch_call.response.total_processed
                     = Len(batch_call.response.results)

\* A batch call has returned with a query answered and a query failed.
C39_Witness ==
    /\ batch_call.pc = "returned"
    /\ batch_call.queries = MaxBatchQueries
    /\ batch_call.response.total_processed > 0
    /\ batch_call.response.failed_count > 0


\* The result of another core is on core_results in front of the 'nova' and
\* the 'orvyn' result of request r.
ForeignFirst(r) ==
    \E k \in OffsetsOf(core_results, r, "other") :
        \A i \in OffsetsOf(core_results, r, "nova")
                    \cup OffsetsOf(core_results, r, "orvyn") : k < i

\* C38: a PartialResult of a core that is neither 'nova' nor 'orvyn' does
\* not prevent synthesis: when such a message and then the 'nova' and the
\* 'orvyn' result of the same request have arrived, in any order of the
\* two, and no synthesis raises, the Correlator eventually publishes the
\* request's Decision.
C38_ForeignResultDoesNotPreventSynthesis ==
    \A r \in RequestIds :
        (/\ ForeignFirst(r)
         /\ CoresPublished(r) = {"other", "nova", "orvyn"}
         /\ \A q \in RequestIds : ~PairRaises(q))
            ~> (Offsets(lumen_decisions, r) # {})

\* With C38: a request whose first result on the channel is that of another
\* core never gets a Decision, and such a result alone never leads to one.
C38_ForeignFirstNeverDecided ==
    \A r \in RequestIds :
        /\ ForeignFirst(r) => Offsets(lumen_decisions, r) = {}
        /\ Offsets(lumen_decisions, r) # {}
               => {"nova", "orvyn"} \subseteq CoresPublished(r)

\* With C38: the entry of such a request stays in the cache with its three
\* results once the loop has read them.
C38_EntryOfThreeStays ==
    [][\A r \in DOMAIN results_cache :
           Cardinality(DOMAIN results_cache[r]) = 3
               => /\ r \in DOMAIN results_cache'
                  /\ results_cache'[r] = results_cache[r]]_vars


\* C40: think_endpoint stores a trace only on success.  A trace of a
\* request_id holds the bus message published for that request and a
\* Decision of that request from the decisions channel, the one returned by
\* the call; a trace appears only in the step in which the call of its
\* request_id ends with its Decision and the answer 200; and the step in
\* which a call ends without a Decision leaves the trace store unchanged.
C40_TraceOnlyOnSuccess ==
    /\ [](\A r \in DOMAIN traces :
              LET trace == traces[r].value
              IN  /\ trace.request_id = r
                  /\ Offsets(requests, r) # {}
                  /\ trace.request = BusMessage(r)
                  /\ trace.lumen_decision.request_id = r
                  /\ \E i \in DOMAIN lumen_decisions :
                         lumen_decisions[i] = trace.lumen_decision
                  /\ gateway.request_id = r
                         => /\ gateway.pc = "done"
                            /\ gateway.status = 200
                            /\ gateway.decision = trace.lumen_decision)
    /\ [][/\ \A r \in DOMAIN traces' \ DOMAIN traces :
                 /\ gateway.pc = "waiting"
                 /\ gateway.request_id = r
                 /\ gateway'.pc = "done"
                 /\ gateway'.status = 200
                 /\ gateway'.decision # NoDecision
          /\ (gateway.pc = "waiting" /\ gateway'.pc = "done"
              /\ gateway'.decision = NoDecision) => traces' = traces]_vars

\* A call has timed out, without a trace, after an earlier call stored its
\* trace.
C40_Witness ==
    /\ gateway.pc = "done"
    /\ gateway.decision = NoDecision
    /\ gateway.status = 500
    /\ gateway.request_id \notin DOMAIN traces
    /\ traces # EmptyMap


====
